---------------------------- MODULE Spec2Model ----------------------------
(***************************************************************************)
(* A model of the agent framework of this repository:                      *)
(*                                                                         *)
(*   - Agent.run, Agent.setStatus and the pieces of MemoryManager and      *)
(*     ToolHandler that a run drives (src/unnamed/part_002);               *)
(*   - MemoryManager, ToolHandler.handleToolCalls with its retries, and    *)
(*     EventEmitter, each on its own (src/unnamed/part_002);               *)
(*   - the tool registry of an agent: addTool, removeTool and the derived  *)
(*     schema list (src/unnamed/part_002);                                 *)
(*   - TeamFactory.createTeamFromConfig (src/teamfactory-ex.md); Team.js   *)
(*     is not part of the sources either, and the Team constructor is      *)
(*     modelled from spec.md 4.5;                                          *)
(*   - AgencyFactory.createAgency / executeWorkflow                        *)
(*     (src/agencyfactory-ex.md) and the workflow engine behind it         *)
(*     (Agency.executeWorkflow).  Agency.js is imported by the factory but *)
(*     is not part of the sources, so the engine is modelled from its      *)
(*     documented contract (spec.md 4.6, 5, 7).                            *)
(*                                                                         *)
(* JavaScript runs one callback at a time: everything an async function    *)
(* does between two awaits is one atomic step.  Each action below is one   *)
(* such step; a pending await is a value of a pc field.                    *)
(***************************************************************************)
EXTENDS Integers, Sequences, FiniteSets, TLC

VARIABLES
    \* ---- Agent (src/unnamed/part_002, class Agent) ----
    status,               \* Agent.status
    events,               \* what Agent.events has emitted so far: for each
                          \* invocation of run, its events in order
    conversationHistory,  \* Agent.memory.conversationHistory
    tools,                \* Agent.tools: tool name -> tool object
    runs,                 \* one record per invocation of Agent.run
    \* ---- Agency / AgencyFactory ----
    errorHandlers,          \* Agency: the job ids with a registered error handler
    workflowErrorHandlers,  \* Agency: the workflow ids with a registered handler
    clock,                  \* the reading of Date.now()
    execIds,                \* the execution ids generated so far, in order
    calls,                  \* the number of executeWorkflow calls made so far
    lastCall,               \* the last executeWorkflow call: [workflowId, outcome]
    exec,                   \* the workflow execution in progress (or the last one)
    \* ---- MemoryManager (src/unnamed/part_002) ----
    maxHistoryLength,     \* MemoryManager.maxHistoryLength
    keyValueStore,        \* MemoryManager.keyValueStore
    added,                \* every entry pushed since construction or clear()
    memCalls,             \* the number of calls made on the memory manager
    memLast,              \* the last call on the memory manager
    \* ---- ToolHandler ----
    retryAttempts,        \* ToolHandler.retryAttempts
    retryDelay,           \* ToolHandler.retryDelay
    batch,                \* the handleToolCalls invocation in progress
    \* ---- EventEmitter ----
    busEvents,            \* EventEmitter.events: event name -> listeners
    wildcardEvents,       \* EventEmitter.wildcardEvents, in key insertion order
    subscribed,           \* the registrations made so far (on / once calls)
    invocations,          \* registration -> how often its listener was invoked
    emits,                \* the number of emit / emitAsync calls made so far
    lastEmit,             \* the last emit call
    asyncEmit,            \* the last emitAsync call and its promise
    \* ---- Agent: the tool registry ----
    toolOrder,            \* Object.keys(Agent.tools): the names in insertion order
    toolSchemas,          \* Agent.toolSchemas
    regCalls,             \* the number of addTool / removeTool calls made so far
    regLast,              \* the last addTool / removeTool call
    \* ---- TeamFactory (src/teamfactory-ex.md) ----
    teamConfig,           \* the configuration object given to the factory
    createdTeam           \* the last createTeamFromConfig call and its outcome

agentVars == <<status, events, conversationHistory, tools, runs>>
agencyVars ==
    <<errorHandlers, workflowErrorHandlers, clock, execIds, calls, lastCall, exec>>
memoryVars == <<maxHistoryLength, keyValueStore, added, memCalls, memLast>>
toolVars == <<retryAttempts, retryDelay, batch>>
emitterVars ==
    <<busEvents, wildcardEvents, subscribed, invocations, emits, lastEmit, asyncEmit>>
registryVars == <<toolOrder, toolSchemas, regCalls, regLast>>
teamVars == <<teamConfig, createdTeam>>
libVars == <<memoryVars, toolVars, emitterVars, registryVars, teamVars>>
vars == <<status, events, conversationHistory, tools, runs,
          errorHandlers, workflowErrorHandlers, clock, execIds, calls, lastCall, exec,
          maxHistoryLength, keyValueStore, added, memCalls, memLast,
          retryAttempts, retryDelay, batch,
          busEvents, wildcardEvents, subscribed, invocations, emits, lastEmit,
          asyncEmit,
          toolOrder, toolSchemas, regCalls, regLast, teamConfig, createdTeam>>

None == "none"

(***************************************************************************)
(* Bounds of the model.                                                    *)
(***************************************************************************)
MaxRuns == 2          \* invocations of Agent.run on the one agent
MaxCalls == 2         \* invocations of AgencyFactory.executeWorkflow
MaxClock == 1         \* Date.now() readings 0..MaxClock
MaxMemCalls == 4      \* calls made on the one MemoryManager
MaxLimit == 3         \* getHistory limits 0..MaxLimit
MaxConfigured == 2    \* configured maxHistoryLength 0..MaxConfigured
MaxSubs == 2          \* on / once calls on the one EventEmitter
MaxEmits == 2         \* emit / emitAsync calls on it
MaxBatchLen == 3      \* tool calls in one handleToolCalls batch
MaxAttemptsConfigured == 2   \* configured retryAttempts 0..MaxAttemptsConfigured
MaxRegCalls == 3       \* addTool / removeTool calls on the one agent

RunIds == 1..MaxRuns


(***************************************************************************)
(* Values.                                                                 *)
(***************************************************************************)
Undefined == "undefined"          \* JavaScript's undefined
Statuses == {"idle", "working", "error"}
Inputs == {"q1", "q2"}            \* inputs handed to Agent.run

\* A part of response.candidates[0].content.parts: {text} or {functionCall}.
TextPart(t) == [kind |-> "text", text |-> t, name |-> Undefined]
FunctionCallPart(n) == [kind |-> "functionCall", text |-> Undefined, name |-> n]

\* The model responses the language-model client may return (the parts of the
\* first candidate; a response without candidates behaves as the empty one).
\* "ghost" is in no registry, "legacy" is registered without a callable call,
\* "search" is a well-formed tool.
Responses ==
    { <<TextPart("A"), TextPart("B")>>,
      <<TextPart("C"), FunctionCallPart("ghost"), FunctionCallPart("search"),
        FunctionCallPart("legacy")>> }

\* The values false, 0, '' and null, and the values that || takes as false.
JsFalse == "false"
FalsyValues == {JsFalse, "0", "", "null", Undefined, "NaN"}

\* What a callable tool may do when it is run through _executeWithRetry:
\* return a value (a truthy one, or false), or fail every attempt with an
\* error message.
ToolOutcomes ==
    { [ok |-> TRUE, value |-> "data"], [ok |-> TRUE, value |-> JsFalse],
      [ok |-> FALSE, value |-> "boom"] }

\* A unified tool object { name, schema, call }.  schema is NoSchema when the
\* property is missing, NoDeclaration when the schema has no
\* function_declaration, and otherwise the function_declaration it holds;
\* callable is typeof call === 'function'.
NoSchema == "noSchema"
NoDeclaration == "noDeclaration"
Declarations == {"d1", "d2"}
Tool(name, schema, callable) ==
    [name |-> name, schema |-> schema, callable |-> callable]

\* config.tools, in key order (each tool under its own name).
InitialToolList == <<Tool("search", "d1", TRUE), Tool("legacy", "d1", FALSE)>>

\* The object that holds the tools of list, each under its own name (the
\* names of a list are distinct), and the keys of that object in order.
Registry(list) ==
    [n \in {list[i].name : i \in 1..Len(list)} |->
        list[CHOOSE i \in 1..Len(list) : list[i].name = n]]
RegistryKeys(list) == [i \in 1..Len(list) |-> list[i].name]

\* The registry an agent is constructed with (config.tools is not validated by
\* the constructor, so a tool whose call is not a function may be in it).
InitialTools == Registry(InitialToolList)

DefaultMaxHistoryLength == 100

Range(seq) == {seq[i] : i \in 1..Len(seq)}

(***************************************************************************)
(* EventEmitter.emit on Agent.events.  The emitted events are kept per      *)
(* invocation of run (the order between two invocations' events is not     *)
(* kept); oldStatus and newStatus are the statusChanged payload.           *)
(***************************************************************************)
Event(name, old, new) ==
    [name |-> name, oldStatus |-> old, newStatus |-> new]

\* The agent's mutable fields that a run writes, threaded through a step.
AgentState ==
    [status |-> status, events |-> events, history |-> conversationHistory]

Commit(a) ==
    /\ status' = a.status
    /\ events' = a.events
    /\ conversationHistory' = a.history

Emit(a, name, r) ==
    [a EXCEPT !.events[r] = Append(@, Event(name, Undefined, Undefined))]

\* Agent.setStatus
SetStatus(a, newStatus, r) ==
    [a EXCEPT !.status = newStatus,
              !.events[r] = Append(@, Event("statusChanged", a.status, newStatus))]

\* AddToHistory as it would be if the newest entry were dropped (pop for shift).
AddToHistoryDropsNewest(history, entry) ==
    LET h == Append(history, entry)
    IN  IF Len(h) > maxHistoryLength THEN SubSeq(h, 1, Len(h) - 1) ELSE h

\* MemoryManager.addToHistory: push, then shift when the length exceeds the
\* bound (the historyUpdated event goes to the memory's own emitter, not to
\* Agent.events).
AddToHistory(history, entry) ==
    LET h == Append(history, entry)
    IN  IF Len(h) > maxHistoryLength THEN Tail(h) ELSE h

\* llmResponse?.candidates?.[0]?.content?.parts?.filter(p => p.functionCall)
ToolCallsParts(response) ==
    SelectSeq(response, LAMBDA p : p.kind = "functionCall")

\* The default responseProcessor: the text parts of the first candidate, joined.
RECURSIVE JoinText(_)
JoinText(parts) ==
    IF parts = <<>> THEN ""
    ELSE (IF Head(parts).kind = "text" THEN Head(parts).text ELSE "")
         \o JoinText(Tail(parts))

ResponseProcessor(response) == JoinText(response)

\* ToolHandler.handleToolCalls: one entry per call, in call order.
\* outcomes[i] is what the tool of call i does when it is callable.
HandleToolCalls(toolCalls, registry, outcomes) ==
    [i \in 1..Len(toolCalls) |->
        LET toolName == toolCalls[i].name
        IN  IF toolName \notin DOMAIN registry \/ ~registry[toolName].callable
            THEN [toolName |-> toolName, result |-> Undefined,
                  error |-> "not found or is not callable"]
            ELSE IF outcomes[i].ok
            THEN [toolName |-> toolName, result |-> outcomes[i].value,
                  error |-> Undefined]
            ELSE [toolName |-> toolName, result |-> Undefined,
                  error |-> outcomes[i].value]]

\* a || b
OrElse(a, b) == IF a \in FalsyValues THEN b ELSE a

\* { functionResponse: { name: result.toolName,
\*                        response: { result: result.result || result.error } } }
FunctionResponse(result) ==
    [name |-> result.toolName, result |-> OrElse(result.result, result.error)]

\* The parts of the function turn of the second request.
FunctionTurn(toolResults) ==
    [i \in 1..Len(toolResults) |-> FunctionResponse(toolResults[i])]

(***************************************************************************)
(* Agent.run.  pc of an invocation:                                        *)
(*   new    not called yet                                                 *)
(*   llm1   awaiting the first generateContent                             *)
(*   tools  awaiting handleToolCalls                                       *)
(*   llm2   awaiting the second generateContent                            *)
(*   done   returned result        failed   threw error                    *)
(* ops lists the calls the invocation has made, in order.                  *)
(*                                                                         *)
(* Left out, as nothing in run branches on them: the context merge, the    *)
(* system instruction and llmConfig of the request, and the timestamps of  *)
(* events and history entries.  The tool batch is one awaited call here;   *)
(* its entries are computed from the registry when it resolves.            *)
(***************************************************************************)
NewRun ==
    [pc |-> "new", input |-> Undefined, ops |-> <<>>, resp1 |-> <<>>,
     toolResults |-> <<>>, functionTurn |-> <<>>, resp2 |-> <<>>,
     result |-> Undefined,
     error |-> Undefined]

\* CatchRun as it would be if the catch block reported the failure as a
\* completion and left the status alone.
CatchRunSwallows(a, r) == Emit(a, "runCompleted", r)

\* The catch block of run: setStatus('error'), emit runError, throw error.
CatchRun(a, r) == Emit(SetStatus(a, "error", r), "runError", r)

Thrown(run, error) == [run EXCEPT !.pc = "failed", !.error = error]

\* CompleteRun as it would be without the addToHistory call.
CompleteRunNoHistory(a, r, input, response) ==
    Emit(SetStatus(a, "idle", r), "runCompleted", r)

\* CompleteRun as it would be if runCompleted were emitted before the status
\* is set to idle.
CompleteRunCompletedFirst(a, r, input, response) ==
    LET a1 == [a EXCEPT !.history =
                   AddToHistory(@, [input |-> input, response |-> response])]
    IN  SetStatus(Emit(a1, "runCompleted", r), "idle", r)

\* The tail of both branches of run: addToHistory, setStatus('idle'),
\* emit runCompleted, return.
CompleteRun(a, r, input, response) ==
    LET a1 == [a EXCEPT !.history =
                   AddToHistory(@, [input |-> input, response |-> response])]
    IN  Emit(SetStatus(a1, "idle", r), "runCompleted", r)

Returned(run, response) ==
    [run EXCEPT !.pc = "done", !.result = response,
                !.ops = @ \o <<"responseProcessor", "addToHistory">>]

\* HasToolCalls as it would be if only the first part were inspected.
HasToolCallsFirstPartOnly(response) ==
    response # <<>> /\ response[1].kind = "functionCall"

\* toolCallsParts && toolCallsParts.length > 0
HasToolCalls(response) == Len(ToolCallsParts(response)) > 0

\* run(input, context) up to its first await: setStatus('working'), emit
\* runStarted, format the input, call generateContent.
RunStart(r, input) ==
    /\ runs[r].pc = "new"
    /\ \A q \in RunIds : q < r => runs[q].pc # "new"
    /\ \E formatterThrows \in BOOLEAN :
         LET a1 == Emit(SetStatus(AgentState, "working", r), "runStarted", r)
             run == [runs[r] EXCEPT !.input = input, !.ops = <<"inputFormatter">>]
         IN  IF formatterThrows
             THEN /\ Commit(CatchRun(a1, r))
                  /\ runs' = [runs EXCEPT ![r] = Thrown(run, "formatterError")]
             ELSE /\ Commit(Emit(a1, "inputFormatted", r))
                  /\ runs' = [runs EXCEPT ![r] =
                        [run EXCEPT !.pc = "llm1",
                                    !.ops = Append(@, "generateContent")]]
    /\ UNCHANGED <<tools, agencyVars, libVars>>

\* A pending generateContent rejects: the catch block runs.
RunLlmFails(r) ==
    /\ runs[r].pc \in {"llm1", "llm2"}
    /\ Commit(CatchRun(AgentState, r))
    /\ runs' = [runs EXCEPT ![r] = Thrown(@, "llmError")]
    /\ UNCHANGED <<tools, agencyVars, libVars>>

\* The first generateContent resolves with response.
RunLlm1Returns(r, response) ==
    /\ runs[r].pc = "llm1"
    /\ LET a1 == Emit(AgentState, "llmResponseReceived", r)
           run == [runs[r] EXCEPT !.resp1 = response]
       IN  IF HasToolCalls(response)
           THEN /\ Commit(Emit(a1, "toolCallsDetected", r))
                /\ runs' = [runs EXCEPT ![r] =
                      [run EXCEPT !.pc = "tools",
                                  !.ops = Append(@, "handleToolCalls")]]
           ELSE \E processorThrows \in BOOLEAN :
                  IF processorThrows
                  THEN /\ Commit(CatchRun(a1, r))
                       /\ runs' = [runs EXCEPT ![r] =
                             Thrown([run EXCEPT !.ops = Append(@, "responseProcessor")],
                                    "processorError")]
                  ELSE LET out == ResponseProcessor(response)
                       IN  /\ Commit(CompleteRun(a1, r, run.input, out))
                           /\ runs' = [runs EXCEPT ![r] = Returned(run, out)]
    /\ UNCHANGED <<tools, agencyVars, libVars>>

\* handleToolCalls resolves: emit toolCallsHandled, call generateContent again.
RunToolsReturn(r) ==
    /\ runs[r].pc = "tools"
    /\ LET toolCalls == ToolCallsParts(runs[r].resp1)
       IN  \E outcomes \in [1..Len(toolCalls) -> ToolOutcomes] :
             /\ Commit(Emit(AgentState, "toolCallsHandled", r))
             /\ runs' = [runs EXCEPT ![r] =
                   [@ EXCEPT !.pc = "llm2",
                             !.toolResults = HandleToolCalls(toolCalls, tools, outcomes),
                             !.functionTurn =
                                FunctionTurn(HandleToolCalls(toolCalls, tools, outcomes)),
                             !.ops = Append(@, "generateContent")]]
    /\ UNCHANGED <<tools, agencyVars, libVars>>

\* RunLlm2Returns as it would be if a second response with function calls
\* started another tool batch.
RunLlm2ReturnsLoops(r, response) ==
    /\ runs[r].pc = "llm2"
    /\ IF HasToolCalls(response)
       THEN /\ Commit(Emit(AgentState, "toolCallsDetected", r))
            /\ runs' = [runs EXCEPT ![r] =
                  [@ EXCEPT !.pc = "tools", !.resp1 = response,
                            !.ops = Append(@, "handleToolCalls")]]
       ELSE LET out == ResponseProcessor(response)
            IN  /\ Commit(CompleteRun(AgentState, r, runs[r].input, out))
                /\ runs' = [runs EXCEPT ![r] =
                      Returned([@ EXCEPT !.resp2 = response], out)]
    /\ UNCHANGED <<tools, agencyVars, libVars>>

\* The second generateContent resolves with response.
RunLlm2Returns(r, response) ==
    /\ runs[r].pc = "llm2"
    /\ LET run == [runs[r] EXCEPT !.resp2 = response]
       IN  \E processorThrows \in BOOLEAN :
             IF processorThrows
             THEN /\ Commit(CatchRun(AgentState, r))
                  /\ runs' = [runs EXCEPT ![r] =
                        Thrown([run EXCEPT !.ops = Append(@, "responseProcessor")],
                               "processorError")]
             ELSE LET out == ResponseProcessor(response)
                  IN  /\ Commit(CompleteRun(AgentState, r, run.input, out))
                      /\ runs' = [runs EXCEPT ![r] = Returned(run, out)]
    /\ UNCHANGED <<tools, agencyVars, libVars>>

(***************************************************************************)
(* The tool registry of an agent: Agent.tools, Agent.toolSchemas, addTool, *)
(* removeTool.  A call runs to completion in one step.  The call of        *)
(* llmProvider.updateToolSchemas, when the provider has one, is left out.  *)
(***************************************************************************)
\* The tools addTool is called with: every combination of a name (or none),
\* a schema (none, one without function_declaration, one with) and a call
\* that is or is not a function.
ToolArgs ==
    {Tool(name, schema, callable) :
        name \in {Undefined, "search", "legacy"},
        schema \in {NoSchema, NoDeclaration} \cup Declarations,
        callable \in BOOLEAN}

\* The config.tools an agent is constructed with.
ToolConfigs ==
    { <<>>,
      InitialToolList,
      <<Tool("legacy", NoDeclaration, TRUE)>>,
      <<Tool("search", "d1", TRUE), Tool("legacy", NoSchema, TRUE)>> }

\* An event emitted on Agent.events by addTool / removeTool, with the
\* toolName and schema of its payload.
ToolEvent(name, toolName, schema) ==
    [name |-> name, toolName |-> toolName, schema |-> schema]

\* _refreshToolSchemas: Object.values(this.tools), filtered to the tools
\* with a schema that has a function_declaration, mapped to it.
RefreshToolSchemas(registry, order) ==
    LET declared == SelectSeq(order, LAMBDA n : registry[n].schema \in Declarations)
    IN  [i \in 1..Len(declared) |-> registry[declared[i]].schema]

\* The agent's registry fields, threaded through a call, with the events
\* the call emitted and whether it threw.
RegistryState ==
    [tools |-> tools, order |-> toolOrder, schemas |-> toolSchemas,
     emitted |-> <<>>, threw |-> FALSE]

\* The test at the head of addTool (the tool is never null here).
InvalidTool(tool) ==
    \/ tool.name = Undefined
    \/ tool.schema = NoSchema
    \/ ~tool.callable
    \/ tool.schema = NoDeclaration

\* this.tools[tool.name] = tool; this._refreshToolSchemas()
StoreTool(ag, tool) ==
    LET registry == [n \in DOMAIN ag.tools \cup {tool.name} |->
                        IF n = tool.name THEN tool ELSE ag.tools[n]]
        order == IF tool.name \in DOMAIN ag.tools THEN ag.order
                 ELSE Append(ag.order, tool.name)
    IN  [ag EXCEPT !.tools = registry, !.order = order,
                   !.schemas = RefreshToolSchemas(registry, order)]

\* AddTool as it would be if the tool were stored before it is validated.
AddToolStoresFirst(ag, tool) ==
    IF tool.name = Undefined THEN [ag EXCEPT !.threw = TRUE]
    ELSE IF InvalidTool(tool) THEN [StoreTool(ag, tool) EXCEPT !.threw = TRUE]
    ELSE [StoreTool(ag, tool) EXCEPT
             !.emitted = Append(@, ToolEvent("toolAdded", tool.name, tool.schema))]

\* addTool(tool)
AddTool(ag, tool) ==
    IF InvalidTool(tool) THEN [ag EXCEPT !.threw = TRUE]
    ELSE [StoreTool(ag, tool) EXCEPT
             !.emitted = Append(@, ToolEvent("toolAdded", tool.name, tool.schema))]

\* removeTool(toolName)
RemoveTool(ag, toolName) ==
    IF toolName \in DOMAIN ag.tools
    THEN LET registry == [n \in DOMAIN ag.tools \ {toolName} |-> ag.tools[n]]
             order == SelectSeq(ag.order, LAMBDA n : n # toolName)
         IN  [ag EXCEPT !.tools = registry, !.order = order,
                        !.schemas = RefreshToolSchemas(registry, order),
                        !.emitted = Append(@, ToolEvent("toolRemoved", toolName,
                                                        Undefined))]
    ELSE ag

NoTool == Tool(Undefined, NoSchema, FALSE)

NoRegCall ==
    [op |-> None, tool |-> NoTool, toolName |-> Undefined, emitted |-> <<>>,
     threw |-> FALSE]

\* The step of a call: the agent's fields after it, and the call recorded.
RegistryStep(op, tool, toolName, ag) ==
    /\ regCalls < MaxRegCalls
    /\ regCalls' = regCalls + 1
    /\ tools' = ag.tools
    /\ toolOrder' = ag.order
    /\ toolSchemas' = ag.schemas
    /\ regLast' = [op |-> op, tool |-> tool, toolName |-> toolName,
                   emitted |-> ag.emitted, threw |-> ag.threw]
    /\ UNCHANGED <<status, events, conversationHistory, runs, agencyVars,
                   memoryVars, toolVars, emitterVars, teamVars>>

CallAddTool(tool) ==
    RegistryStep("addTool", tool, tool.name, AddTool(RegistryState, tool))

CallRemoveTool(toolName) ==
    RegistryStep("removeTool", NoTool, toolName, RemoveTool(RegistryState, toolName))

\* The constructor's part for the registry: this.tools = config.tools || {},
\* this.toolSchemas = [], and at its end this._refreshToolSchemas().
ConstructRegistry(config) ==
    /\ tools = Registry(config)
    /\ toolOrder = RegistryKeys(config)
    /\ toolSchemas = RefreshToolSchemas(Registry(config), RegistryKeys(config))
    /\ regCalls = 0
    /\ regLast = NoRegCall

\* new Agent(config), whatever tools the configuration has.
AgentInitAnyTools ==
    /\ status = "idle"
    /\ events = [r \in RunIds |-> <<>>]
    /\ conversationHistory = <<>>
    /\ \E config \in ToolConfigs : ConstructRegistry(config)
    /\ runs = [r \in RunIds |-> NewRun]

\* new Agent(config)
AgentInit ==
    /\ status = "idle"
    /\ events = [r \in RunIds |-> <<>>]
    /\ conversationHistory = <<>>
    /\ ConstructRegistry(InitialToolList)
    /\ runs = [r \in RunIds |-> NewRun]

(***************************************************************************)
(* MemoryManager.  Every method runs to completion in one step: the async  *)
(* variants make their changes inside the promise executor, which runs     *)
(* synchronously; what they await is only the listeners of the event.      *)
(***************************************************************************)
Keys == {"k1", "k2"}
NaN == "NaN"                      \* the one value that is not === to itself
Absent == "absent"                \* marks a key the store has no property for
MemValues == {"v1", "v2", NaN, Undefined}

\* The entries pushed to the history (the timestamp is left out).
HistoryEntries == {[input |-> i, response |-> "A"] : i \in Inputs}

\* An optional number (a configuration property, a defaulted parameter).
NotGiven == [given |-> FALSE, value |-> 0]
Given(n) == [given |-> TRUE, value |-> n]

\* config.maxHistoryLength as given to the constructor.
MaxHistoryLengthConfigs == {NotGiven} \cup {Given(n) : n \in 0..MaxConfigured}

\* x || dflt, for an optional number x
OrDefault(x, dflt) == IF ~x.given \/ x.value = 0 THEN dflt ELSE x.value

\* this.maxHistoryLength = config.maxHistoryLength || 100
MaxHistoryLength(config) == OrDefault(config, DefaultMaxHistoryLength)

\* a === b
StrictEquals(a, b) == a = b /\ a # NaN

\* this.keyValueStore[key]
Lookup(store, key) == IF store[key] = Absent THEN Undefined ELSE store[key]

EmptyStore == [k \in Keys |-> Absent]

\* Array.prototype.slice(start): from index start; a negative start counts
\* from the end, and -0 is 0.
Slice(seq, start) ==
    LET from == IF start < 0
                THEN (IF Len(seq) + start < 0 THEN 0 ELSE Len(seq) + start)
                ELSE (IF start > Len(seq) THEN Len(seq) ELSE start)
    IN  SubSeq(seq, from + 1, Len(seq))

\* An event emitted on MemoryManager.events, through emit or emitAsync.
MemEvent(name, mode) == [name |-> name, mode |-> mode]

\* The manager's fields a call writes, with the events the call emitted and
\* the value it returned.
MemoryState ==
    [history |-> conversationHistory, store |-> keyValueStore, added |-> added,
     emitted |-> <<>>, returned |-> <<>>]

\* addToHistory(entry)
MemoryAddToHistory(m, entry) ==
    [m EXCEPT !.history = AddToHistory(@, entry),
              !.added = Append(@, entry),
              !.emitted = Append(@, MemEvent("historyUpdated", "emit"))]

\* addToHistoryAsync(entry): addToHistory, then emitAsync of historyUpdated.
MemoryAddToHistoryAsync(m, entry) ==
    [MemoryAddToHistory(m, entry) EXCEPT
        !.emitted = Append(@, MemEvent("historyUpdated", "emitAsync"))]

\* getHistory(limit = this.maxHistoryLength): conversationHistory.slice(-limit)
MemoryGetHistory(m, limit) ==
    LET n == IF limit.given THEN limit.value ELSE maxHistoryLength
    IN  [m EXCEPT !.returned = Slice(m.history, 0 - n)]

\* remember(key, value)
MemoryRemember(m, key, value) ==
    LET oldValue == Lookup(m.store, key)
        m1 == [m EXCEPT !.store[key] = value]
    IN  IF ~StrictEquals(oldValue, value)
        THEN [m1 EXCEPT !.emitted = Append(@, MemEvent("memoryUpdated", "emit"))]
        ELSE m1

\* RememberAsync as it would be if an unchanged value were not written.
MemoryRememberAsyncSkipsSame(m, key, value) ==
    LET oldValue == Lookup(m.store, key)
    IN  IF ~StrictEquals(oldValue, value)
        THEN [m EXCEPT !.store[key] = value,
                       !.emitted = Append(@, MemEvent("memoryUpdated", "emitAsync"))]
        ELSE m

\* rememberAsync(key, value)
MemoryRememberAsync(m, key, value) ==
    LET oldValue == Lookup(m.store, key)
        m1 == [m EXCEPT !.store[key] = value]
    IN  IF ~StrictEquals(oldValue, value)
        THEN [m1 EXCEPT !.emitted = Append(@, MemEvent("memoryUpdated", "emitAsync"))]
        ELSE m1

\* The memoryForgotten event with its payload { key, value }.
MemoryForgotten(key, value) ==
    [name |-> "memoryForgotten", mode |-> "emit", key |-> key, value |-> value]

\* Forget as it would be if it dropped the whole store.
MemoryForgetDropsAll(m, key) ==
    IF m.store[key] # Absent
    THEN [m EXCEPT !.store = EmptyStore,
                   !.emitted = Append(@, MemoryForgotten(key, m.store[key])),
                   !.returned = <<TRUE>>]
    ELSE [m EXCEPT !.returned = <<FALSE>>]

\* forget(key)
MemoryForget(m, key) ==
    IF m.store[key] # Absent
    THEN [m EXCEPT !.store[key] = Absent,
                   !.emitted = Append(@, MemoryForgotten(key, m.store[key])),
                   !.returned = <<TRUE>>]
    ELSE [m EXCEPT !.returned = <<FALSE>>]

\* clear()
MemoryClear(m) ==
    [m EXCEPT !.history = <<>>, !.store = EmptyStore, !.added = <<>>,
              !.emitted = Append(@, MemEvent("memoryCleared", "emit"))]

\* A call on the manager: what was called with what, and what came of it.
MemCall(op, key, value, entry, limit, m) ==
    [op |-> op, key |-> key, value |-> value, entry |-> entry, limit |-> limit,
     emitted |-> m.emitted, returned |-> m.returned]

NoMemCall ==
    [op |-> None, key |-> Undefined, value |-> Undefined, entry |-> Undefined,
     limit |-> NotGiven, emitted |-> <<>>, returned |-> <<>>]

\* The step of a call: the manager's fields after it, and the call recorded.
MemoryStep(op, key, value, entry, limit, m) ==
    /\ memCalls < MaxMemCalls
    /\ memCalls' = memCalls + 1
    /\ conversationHistory' = m.history
    /\ keyValueStore' = m.store
    /\ added' = m.added
    /\ memLast' = MemCall(op, key, value, entry, limit, m)
    /\ UNCHANGED <<status, events, tools, runs, agencyVars, registryVars, teamVars, maxHistoryLength,
                   toolVars, emitterVars>>

CallAddToHistory(entry) ==
    MemoryStep("addToHistory", Undefined, Undefined, entry, NotGiven,
               MemoryAddToHistory(MemoryState, entry))

CallAddToHistoryAsync(entry) ==
    MemoryStep("addToHistoryAsync", Undefined, Undefined, entry, NotGiven,
               MemoryAddToHistoryAsync(MemoryState, entry))

CallGetHistory(limit) ==
    MemoryStep("getHistory", Undefined, Undefined, Undefined, limit,
               MemoryGetHistory(MemoryState, limit))

CallRemember(key, value) ==
    MemoryStep("remember", key, value, Undefined, NotGiven,
               MemoryRemember(MemoryState, key, value))

CallRememberAsync(key, value) ==
    MemoryStep("rememberAsync", key, value, Undefined, NotGiven,
               MemoryRememberAsync(MemoryState, key, value))

CallForget(key) ==
    MemoryStep("forget", key, Undefined, Undefined, NotGiven,
               MemoryForget(MemoryState, key))

CallClear ==
    MemoryStep("clear", Undefined, Undefined, Undefined, NotGiven,
               MemoryClear(MemoryState))

\* The manager an agent gets when config.memoryConfig is not given.
MemoryIdle ==
    /\ maxHistoryLength = DefaultMaxHistoryLength
    /\ keyValueStore = EmptyStore
    /\ added = <<>>
    /\ memCalls = 0
    /\ memLast = NoMemCall

\* new MemoryManager(config)
MemoryInit ==
    /\ \E config \in MaxHistoryLengthConfigs :
          maxHistoryLength = MaxHistoryLength(config)
    /\ keyValueStore = EmptyStore
    /\ added = <<>>
    /\ memCalls = 0
    /\ memLast = NoMemCall

(***************************************************************************)
(* ToolHandler.  handleToolCalls walks the calls in order; the only awaits *)
(* are the tool function itself and the timer between two attempts.        *)
(*   pc        idle | calling | sleeping | done                            *)
(*   calls     the tool names of the batch (call.function.name)            *)
(*   index     the call being handled                                      *)
(*   attempt   the attempt parameter of _executeWithRetry                  *)
(*   results   the entries pushed so far                                   *)
(*   attempts  call -> the invocations of its tool function, in order:     *)
(*             TRUE for one that returned, FALSE for one that threw        *)
(*   waits     call -> the delays of the timers set for it, in order       *)
(*   log       what the batch did, in order: the invocations of the tool   *)
(*             functions, their settling, the timers set                   *)
(***************************************************************************)
DefaultRetryAttempts == 3
DefaultRetryDelay == 1000

\* config.retryAttempts and config.retryDelay as given to the constructor.
RetryAttemptsConfigs == {NotGiven} \cup {Given(n) : n \in 0..MaxAttemptsConfigured}
RetryDelayConfigs == {NotGiven, Given(0), Given(5)}

\* The batches handleToolCalls is given: up to MaxBatchLen calls of "ghost"
\* (not in the registry), "legacy" (no callable call) and "search".
ToolNames == {"ghost", "legacy", "search"}
Batches == UNION {[1..n -> ToolNames] : n \in 0..MaxBatchLen}

NoBatch ==
    [pc |-> "idle", calls |-> <<>>, index |-> 0, attempt |-> 0, results |-> <<>>,
     attempts |-> <<>>, waits |-> <<>>, log |-> <<>>]

\* An entry of the log: toolFunction(params) is called for call i ("invoke"),
\* the promise it returned settles ("settle"), the retry timer is set
\* ("wait").
Logged(b, op) == [b EXCEPT !.log = Append(@, [op |-> op, call |-> b.index])]

NewBatch(toolCalls) ==
    [pc |-> "calling", calls |-> toolCalls, index |-> 1, attempt |-> 0,
     results |-> <<>>,
     attempts |-> [i \in 1..Len(toolCalls) |-> <<>>],
     waits |-> [i \in 1..Len(toolCalls) |-> <<>>],
     log |-> <<>>]

ErrorEntry(toolName, message) ==
    [toolName |-> toolName, result |-> Undefined, error |-> message]

ResultEntry(toolName, result) ==
    [toolName |-> toolName, result |-> result, error |-> Undefined]

\* !toolObject || typeof toolObject.call !== 'function'
NotCallable(toolName, registry) ==
    toolName \notin DOMAIN registry \/ ~registry[toolName].callable

\* RunLoop as it would be if a missing tool ended the batch.
RunLoopStopsAtMissing(b, registry) ==
    IF b.index > Len(b.calls) THEN [b EXCEPT !.pc = "done"]
    ELSE IF NotCallable(b.calls[b.index], registry)
    THEN [b EXCEPT !.pc = "done",
                   !.results = Append(@, ErrorEntry(b.calls[b.index],
                                                   "not found or is not callable"))]
    ELSE Logged([b EXCEPT !.pc = "calling", !.attempt = 1], "invoke")

\* RunLoop as it would be if the calls were started together, as with
\* toolCalls.map(async call => ...) and Promise.all: the tool function of
\* every remaining call is invoked before the first of them is awaited.
RECURSIVE InvokeRest(_, _, _)
InvokeRest(b, registry, i) ==
    IF i > Len(b.calls) THEN b
    ELSE IF NotCallable(b.calls[i], registry) THEN InvokeRest(b, registry, i + 1)
    ELSE InvokeRest([b EXCEPT !.log = Append(@, [op |-> "invoke", call |-> i])],
                    registry, i + 1)

RECURSIVE RunLoopStartsAll(_, _)
RunLoopStartsAll(b, registry) ==
    IF b.index > Len(b.calls) THEN [b EXCEPT !.pc = "done"]
    ELSE IF NotCallable(b.calls[b.index], registry)
    THEN RunLoopStartsAll(
             [b EXCEPT !.results = Append(@, ErrorEntry(b.calls[b.index],
                                                   "not found or is not callable")),
                       !.index = @ + 1],
             registry)
    ELSE InvokeRest([b EXCEPT !.pc = "calling", !.attempt = 1], registry, b.index)

\* The for loop of handleToolCalls from call b.index on, up to its next
\* await: an entry with an error for each call whose tool is missing or not
\* callable, then the first invocation of the next tool, or the return.
RECURSIVE RunLoop(_, _)
RunLoop(b, registry) ==
    IF b.index > Len(b.calls) THEN [b EXCEPT !.pc = "done"]
    ELSE IF NotCallable(b.calls[b.index], registry)
    THEN RunLoop([b EXCEPT !.results = Append(@, ErrorEntry(b.calls[b.index],
                                                   "not found or is not callable")),
                           !.index = @ + 1],
                 registry)
    ELSE Logged([b EXCEPT !.pc = "calling", !.attempt = 1], "invoke")

\* ShouldRetry as it would be with <= for <.
ShouldRetryInclusive(attempt) == attempt <= retryAttempts

\* if (attempt < this.retryAttempts)
ShouldRetry(attempt) == attempt < retryAttempts

\* handleToolCalls(toolCalls, tools)
HandleToolCallsStart(toolCalls) ==
    /\ batch.pc = "idle"
    /\ batch' = RunLoop(NewBatch(toolCalls), tools)
    /\ UNCHANGED <<agentVars, agencyVars, registryVars, teamVars, memoryVars, retryAttempts, retryDelay,
                   emitterVars>>

\* The tool function of the current call settles.  When it returned, the
\* result is pushed and the loop goes on; when it threw, _executeWithRetry
\* either sets the timer for the next attempt or rethrows, and the catch of
\* handleToolCalls pushes the error.
ToolSettles(outcome) ==
    /\ batch.pc = "calling"
    /\ LET i == batch.index
           b1 == Logged([batch EXCEPT !.attempts[i] = Append(@, outcome.ok)],
                        "settle")
       IN  batch' =
             IF outcome.ok
             THEN RunLoop([b1 EXCEPT
                             !.results = Append(@, ResultEntry(b1.calls[i], outcome.value)),
                             !.index = @ + 1],
                          tools)
             ELSE IF ShouldRetry(b1.attempt)
             THEN Logged([b1 EXCEPT !.pc = "sleeping",
                                    !.waits[i] = Append(@, retryDelay * b1.attempt)],
                         "wait")
             ELSE RunLoop([b1 EXCEPT
                             !.results = Append(@, ErrorEntry(b1.calls[i], outcome.value)),
                             !.index = @ + 1],
                          tools)
    /\ UNCHANGED <<agentVars, agencyVars, registryVars, teamVars, memoryVars, retryAttempts, retryDelay,
                   emitterVars>>

\* The timer fires: _executeWithRetry(toolFunction, params, attempt + 1).
TimerFires ==
    /\ batch.pc = "sleeping"
    /\ batch' = Logged([batch EXCEPT !.pc = "calling", !.attempt = @ + 1],
                       "invoke")
    /\ UNCHANGED <<agentVars, agencyVars, registryVars, teamVars, memoryVars, retryAttempts, retryDelay,
                   emitterVars>>

\* The handler an agent gets when config.toolHandlerConfig is not given.
ToolsIdle ==
    /\ retryAttempts = DefaultRetryAttempts
    /\ retryDelay = DefaultRetryDelay
    /\ batch = NoBatch

\* new ToolHandler(config)
ToolsInit ==
    /\ \E config \in RetryAttemptsConfigs :
          retryAttempts = OrDefault(config, DefaultRetryAttempts)
    /\ \E config \in RetryDelayConfigs :
          retryDelay = OrDefault(config, DefaultRetryDelay)
    /\ batch = NoBatch

(***************************************************************************)
(* EventEmitter.  Event names are sequences of characters, so that         *)
(* includes, endsWith, startsWith and slice are computed as the code       *)
(* computes them.  A registration is one call of on or once; its index in  *)
(* subscribed stands for the function the call stored (the listener, or    *)
(* the onceWrapper around it).                                             *)
(***************************************************************************)
memoryUpdated == <<"m", "e", "m", "o", "r", "y", "U", "p", "d", "a", "t", "e", "d">>
memoryCleared == <<"m", "e", "m", "o", "r", "y", "C", "l", "e", "a", "r", "e", "d">>
historyUpdated ==
    <<"h", "i", "s", "t", "o", "r", "y", "U", "p", "d", "a", "t", "e", "d">>
memStar == <<"m", "e", "m", "*">>            \* "mem*"
star == <<"*">>                              \* "*"
memStarUpdated == <<"m", "e", "m", "*", "U", "p", "d", "a", "t", "e", "d">>

\* The names emit is called with, and the names on / once are called with.
EmittedNames == {memoryUpdated, memoryCleared, historyUpdated}
SubscribedNames == {memoryUpdated, memStar, star, memStarUpdated}

\* String.prototype.includes / endsWith / startsWith, and slice(0, -1)
Includes(str, ch) == \E i \in 1..Len(str) : str[i] = ch
EndsWith(str, suffix) ==
    /\ Len(suffix) <= Len(str)
    /\ SubSeq(str, Len(str) - Len(suffix) + 1, Len(str)) = suffix
StartsWith(str, prefix) ==
    /\ Len(prefix) <= Len(str)
    /\ SubSeq(str, 1, Len(prefix)) = prefix
DropLast(str) == SubSeq(str, 1, Len(str) - 1)

\* array.indexOf(x) (0 for -1) and array.splice(index, 1)
IndexOf(array, x) ==
    IF \E i \in 1..Len(array) : array[i] = x
    THEN CHOOSE i \in 1..Len(array) :
            array[i] = x /\ \A j \in 1..(i - 1) : array[j] # x
    ELSE 0
Splice(array, index) ==
    SubSeq(array, 1, index - 1) \o SubSeq(array, index + 1, Len(array))
Remove(array, x) ==
    IF IndexOf(array, x) > 0 THEN Splice(array, IndexOf(array, x)) ELSE array

\* A call of on(eventName, listener) or once(eventName, listener).
Registration(eventName, once) == [eventName |-> eventName, once |-> once]

\* What the listeners do with the emitter when they are called: for each
\* registration, the registration whose unsubscribe function (the one on
\* returned) its listener calls, or 0 when it calls none.
NoUnsubscribes == [id \in 1..Len(subscribed) |-> 0]
Unsubscribes == [1..Len(subscribed) -> 0..Len(subscribed)]

\* The emitter's fields, threaded through a call, with what the call has
\* done so far: the registrations invoked, in order; whether the listener
\* just called threw; whether the call returned normally.
EmitterState ==
    [events |-> busEvents, wildcardEvents |-> wildcardEvents,
     invocations |-> invocations, invoked |-> <<>>, threw |-> FALSE,
     returned |-> TRUE, unsubscribes |-> NoUnsubscribes]

\* on(eventName, listener), for the registration with index id
On(em, eventName, id) ==
    IF Includes(eventName, "*")
    THEN IF \E k \in 1..Len(em.wildcardEvents) :
               em.wildcardEvents[k].pattern = eventName
         THEN [em EXCEPT !.wildcardEvents =
                  [k \in 1..Len(@) |->
                      IF @[k].pattern = eventName
                      THEN [@[k] EXCEPT !.listeners = Append(@, id)]
                      ELSE @[k]]]
         ELSE [em EXCEPT !.wildcardEvents =
                  Append(@, [pattern |-> eventName, listeners |-> <<id>>])]
    ELSE [em EXCEPT !.events =
             [n \in DOMAIN @ \cup {eventName} |->
                 IF n = eventName
                 THEN (IF n \in DOMAIN @ THEN Append(@[n], id) ELSE <<id>>)
                 ELSE @[n]]]

\* off(eventName, listenerToRemove, isWildcard = false)
Off(em, eventName, id, isWildcard) ==
    IF isWildcard
    THEN [em EXCEPT !.wildcardEvents =
             [k \in 1..Len(@) |->
                 IF @[k].pattern = eventName
                 THEN [@[k] EXCEPT !.listeners = Remove(@, id)]
                 ELSE @[k]]]
    ELSE IF eventName \in DOMAIN em.events
         THEN [em EXCEPT !.events[eventName] = Remove(@, id)]
         ELSE em

\* The function on returned for registration id:
\* () => this.off(eventName, listener, true) under a name that holds a '*',
\* () => this.off(eventName, listener) under any other name.
Unsubscribe(em, id) ==
    Off(em, subscribed[id].eventName, id, Includes(subscribed[id].eventName, "*"))

\* The function stored for registration id is called.  For once it is the
\* onceWrapper: listener(data); this.off(eventName, onceWrapper).  throwers
\* are the registrations whose listener throws in this call; a listener
\* that returns has first called the unsubscribe function it calls, if any.
CallListener(em, id, throwers) ==
    LET em1 == [em EXCEPT !.invocations[id] = @ + 1,
                          !.invoked = Append(@, id)]
        em2 == IF em.unsubscribes[id] # 0
               THEN Unsubscribe(em1, em.unsubscribes[id])
               ELSE em1
    IN  IF id \in throwers THEN [em1 EXCEPT !.threw = TRUE]
        ELSE IF subscribed[id].once
        THEN Off(em2, subscribed[id].eventName, id, FALSE)
        ELSE em2

\* InvokeListeners as it would be without the try/catch around the listener.
RECURSIVE InvokeListenersUncaught(_, _, _)
InvokeListenersUncaught(listeners, em, throwers) ==
    IF listeners = <<>> THEN em
    ELSE LET em1 == CallListener(em, Head(listeners), throwers)
         IN  IF em1.threw THEN [em1 EXCEPT !.returned = FALSE]
             ELSE InvokeListenersUncaught(Tail(listeners), em1, throwers)

\* const listeners = [...this.events[eventName]];
\* listeners.forEach(listener => { try { listener(data) } catch ... })
RECURSIVE InvokeListeners(_, _, _)
InvokeListeners(listeners, em, throwers) ==
    IF listeners = <<>> THEN em
    ELSE LET em1 == CallListener(em, Head(listeners), throwers)
         IN  InvokeListeners(Tail(listeners), [em1 EXCEPT !.threw = FALSE], throwers)

\* MatchesWildcard as it would be if every wildcard pattern took every event.
MatchesWildcardAlways(wildcard, eventName) == TRUE

\* wildcard.endsWith('*') && eventName.startsWith(wildcard.slice(0, -1))
\* (the else branch, wildcard === '*', is never taken: "*" ends with '*')
MatchesWildcard(wildcard, eventName) ==
    EndsWith(wildcard, <<"*">>) /\ StartsWith(eventName, DropLast(wildcard))

\* this.wildcardEvents[wildcard].forEach(listener => { try ... catch ... })
\* on the stored array itself, from index i on: forEach visits the indexes
\* below the length the array had when it began, and reads the array at
\* each index when it gets there, skipping an index the array no longer has.
RECURSIVE ForEachStored(_, _, _, _, _)
ForEachStored(k, i, len, em, throwers) ==
    IF i > len \/ i > Len(em.wildcardEvents[k].listeners) THEN em
    ELSE LET em1 == CallListener(em, em.wildcardEvents[k].listeners[i], throwers)
         IN  ForEachStored(k, i + 1, len, [em1 EXCEPT !.threw = FALSE], throwers)

\* for (const wildcard in this.wildcardEvents) ..., from key k on
RECURSIVE EmitWildcards(_, _, _, _)
EmitWildcards(k, eventName, em, throwers) ==
    IF k > Len(em.wildcardEvents) THEN em
    ELSE IF MatchesWildcard(em.wildcardEvents[k].pattern, eventName)
    THEN EmitWildcards(k + 1, eventName,
                       ForEachStored(k, 1, Len(em.wildcardEvents[k].listeners),
                                     em, throwers),
                       throwers)
    ELSE EmitWildcards(k + 1, eventName, em, throwers)

\* EmitOp as it would be if the wildcard listeners were run first.
EmitOpWildcardsFirst(em, eventName, throwers) ==
    LET em1 == EmitWildcards(1, eventName, em, throwers)
    IN  IF eventName \in DOMAIN em1.events
        THEN InvokeListeners(em1.events[eventName], em1, throwers)
        ELSE em1

\* emit(eventName, data)
EmitOp(em, eventName, throwers) ==
    LET em1 == IF eventName \in DOMAIN em.events
               THEN InvokeListeners(em.events[eventName], em, throwers)
               ELSE em
    IN  EmitWildcards(1, eventName, em1, throwers)

\* The listeners emitAsync collects: those of the exact name, then those of
\* every matching wildcard key, from key k on.
RECURSIVE WildcardPromises(_, _, _)
WildcardPromises(k, wildcards, eventName) ==
    IF k > Len(wildcards) THEN <<>>
    ELSE (IF MatchesWildcard(wildcards[k].pattern, eventName)
          THEN wildcards[k].listeners ELSE <<>>)
         \o WildcardPromises(k + 1, wildcards, eventName)

ListenerPromises(em, eventName) ==
    (IF eventName \in DOMAIN em.events THEN em.events[eventName] ELSE <<>>)
    \o WildcardPromises(1, em.wildcardEvents, eventName)

\* What a listener does when emitAsync calls it: return a value, throw, or
\* return a promise that settles later.
Behaviours == {"returns", "throws", "async"}

\* Promise.resolve().then(() => listener(data)), for each collected listener:
\* the callbacks run one after the other, each in its own promise.
RECURSIVE ThenEach(_, _, _)
ThenEach(listeners, em, throwers) ==
    IF listeners = <<>> THEN em
    ELSE ThenEach(Tail(listeners),
                  [CallListener(em, Head(listeners), throwers) EXCEPT !.threw = FALSE],
                  throwers)

\* The promise of the callback of registration id, once the callback has run.
\* The onceWrapper returns nothing, whatever its listener returns.
CallbackPromise(id, behaviour) ==
    IF behaviour[id] = "throws" THEN "rejected"
    ELSE IF behaviour[id] = "async" /\ ~subscribed[id].once THEN "pending"
    ELSE "fulfilled"

\* Promise.all(listenerPromises): rejected with the first rejection,
\* fulfilled when all are fulfilled.
PromiseAll(promises) ==
    IF \E i \in 1..Len(promises) : promises[i] = "rejected" THEN "rejected"
    ELSE IF \A i \in 1..Len(promises) : promises[i] = "fulfilled" THEN "fulfilled"
    ELSE "pending"

NoEmit ==
    [name |-> <<>>, invoked |-> <<>>, throwers |-> {}, returned |-> TRUE,
     unsubscribes |-> <<>>]

NoAsyncEmit ==
    [name |-> <<>>, listeners |-> <<>>, promises |-> <<>>, promise |-> None]

CommitEmitter(em) ==
    /\ busEvents' = em.events
    /\ wildcardEvents' = em.wildcardEvents
    /\ invocations' = em.invocations

\* on(eventName, listener) / once(eventName, listener)
OnCall(eventName, once) ==
    /\ Len(subscribed) < MaxSubs
    /\ subscribed' = Append(subscribed, Registration(eventName, once))
    /\ CommitEmitter(On([EmitterState EXCEPT !.invocations = Append(@, 0)],
                        eventName, Len(subscribed) + 1))
    /\ UNCHANGED <<agentVars, agencyVars, registryVars, teamVars, memoryVars, toolVars, emits, lastEmit,
                   asyncEmit>>

\* emit(eventName, data) with listeners that throw (throwers) and listeners
\* that unsubscribe a listener (unsubscribes); a listener that was not
\* invoked did neither.
EmitStep(eventName, throwers, unsubscribes) ==
    /\ emits < MaxEmits
    /\ emits' = emits + 1
    /\ LET em == EmitOp([EmitterState EXCEPT !.unsubscribes = unsubscribes],
                        eventName, throwers)
       IN  /\ throwers \subseteq Range(em.invoked)
           /\ \A id \in 1..Len(subscribed) :
                 unsubscribes[id] # 0 => id \in Range(em.invoked) \ throwers
           /\ CommitEmitter(em)
           /\ lastEmit' = [name |-> eventName, invoked |-> em.invoked,
                           throwers |-> throwers, returned |-> em.returned,
                           unsubscribes |-> unsubscribes]
    /\ UNCHANGED <<agentVars, agencyVars, registryVars, teamVars, memoryVars, toolVars, subscribed,
                   asyncEmit>>

\* emit(eventName, data); throwers are the listeners that throw in it.  The
\* listeners leave the emitter alone.
EmitCall(eventName) ==
    \E throwers \in SUBSET (1..Len(subscribed)) :
        EmitStep(eventName, throwers, NoUnsubscribes)

\* emit(eventName, data) with listeners that may unsubscribe themselves or
\* another listener when they are called.
EmitUnsubscribingCall(eventName) ==
    \E throwers \in SUBSET (1..Len(subscribed)), unsubscribes \in Unsubscribes :
        EmitStep(eventName, throwers, unsubscribes)

\* emitAsync(eventName, data), up to the point where every callback has run.
EmitAsyncCall(eventName) ==
    /\ emits < MaxEmits
    /\ \A i \in 1..Len(asyncEmit.promises) : asyncEmit.promises[i] # "pending"
    /\ emits' = emits + 1
    /\ LET listeners == ListenerPromises(EmitterState, eventName)
       IN  \E behaviour \in [Range(listeners) -> Behaviours] :
             LET throwers == {id \in Range(listeners) : behaviour[id] = "throws"}
                 promises == [i \in 1..Len(listeners) |->
                                 CallbackPromise(listeners[i], behaviour)]
             IN  /\ CommitEmitter(ThenEach(listeners, EmitterState, throwers))
                 /\ asyncEmit' = [name |-> eventName, listeners |-> listeners,
                                  promises |-> promises,
                                  promise |-> PromiseAll(promises)]
    /\ UNCHANGED <<agentVars, agencyVars, registryVars, teamVars, memoryVars, toolVars, subscribed, lastEmit>>

\* The promise an async listener returned settles.
ListenerSettles(i, ok) ==
    /\ i \in 1..Len(asyncEmit.promises)
    /\ asyncEmit.promises[i] = "pending"
    /\ LET promises == [asyncEmit.promises EXCEPT
                           ![i] = IF ok THEN "fulfilled" ELSE "rejected"]
       IN  asyncEmit' = [asyncEmit EXCEPT
                           !.promises = promises,
                           !.promise = IF @ = "pending" THEN PromiseAll(promises)
                                       ELSE @]
    /\ UNCHANGED <<agentVars, agencyVars, registryVars, teamVars, memoryVars, toolVars, busEvents,
                   wildcardEvents, subscribed, invocations, emits, lastEmit>>

\* new EventEmitter()
EmitterIdle ==
    /\ busEvents = <<>>
    /\ wildcardEvents = <<>>
    /\ subscribed = <<>>
    /\ invocations = <<>>
    /\ emits = 0
    /\ lastEmit = NoEmit
    /\ asyncEmit = NoAsyncEmit

(***************************************************************************)
(* The agency.  Its configuration record (agencyfactory-ex.md,             *)
(* createAgency): brief, team jobs, workflows, error handlers.             *)
(***************************************************************************)
Jobs == {"jobA", "jobB", "jobC", "jobD"}

\* config.brief, as stored by agency.createBrief
Brief == [topic |-> "AI", audience |-> "devs"]

\* An input binding of a job: a literal, brief.<key> or jobs.<job>.output.
Literal(v) == [kind |-> "literal", value |-> v, key |-> Undefined, job |-> Undefined]
BriefRef(k) == [kind |-> "brief", value |-> Undefined, key |-> k, job |-> Undefined]
JobRef(j) == [kind |-> "job", value |-> Undefined, key |-> Undefined, job |-> j]

\* The team's job map: the input bindings of each job.
JobInputs ==
    [jobA |-> <<BriefRef("topic")>>,
     jobB |-> <<JobRef("jobA"), Literal("formal")>>,
     jobC |-> <<Literal("short"), BriefRef("audience")>>,
     jobD |-> <<JobRef("jobB"), BriefRef("topic")>>]

\* A step: a bare job id, or {type: "parallel", jobs: [...]}.
Sequential(j) == [type |-> "sequential", jobs |-> <<j>>]
Parallel(js) == [type |-> "parallel", jobs |-> js]

\* agency.workflows: workflow id -> steps.  In "forward" jobD reads jobB, which
\* runs in a later step; in "sameStep" jobD reads jobB of its own step.
Workflows ==
    [main |-> <<Sequential("jobA"), Parallel(<<"jobB", "jobC">>), Sequential("jobD")>>,
     forward |-> <<Sequential("jobA"), Sequential("jobD"), Sequential("jobB")>>,
     sameStep |-> <<Sequential("jobA"), Parallel(<<"jobB", "jobD">>)>>]

\* The workflow ids executeWorkflow is called with ("absent" is not registered).
WorkflowIds == {"main", "forward", "sameStep", "absent"}

\* What an agent's run yields for a job: an output, or a failure.
JobOutcomes ==
    { [ok |-> TRUE, value |-> "out1"], [ok |-> TRUE, value |-> "out2"],
      [ok |-> FALSE, value |-> "agent failed"] }

\* config.errorHandlers and config.workflowErrorHandlers: what the
\* configuration gives for each id (a function, something else, or nothing).
HandlerKinds == {"absent", "function", "notAFunction"}

ErrorHandlerConfigs ==
    { [j \in Jobs |-> "absent"],
      [j \in Jobs |-> IF j = "jobB" THEN "function" ELSE "absent"],
      [j \in Jobs |-> IF j = "jobB" THEN "notAFunction" ELSE "absent"] }

WorkflowErrorHandlerConfigs ==
    { [w \in DOMAIN Workflows |-> "absent"],
      [w \in DOMAIN Workflows |-> IF w = "main" THEN "function" ELSE "notAFunction"] }

\* createAgency registers a handler only when it is a function.
RegisteredHandlers(config) == {id \in DOMAIN config : config[id] = "function"}

\* `${workflowId}-${Date.now()}`
ExecutionId(workflowId, now) == [workflow |-> workflowId, time |-> now]

(***************************************************************************)
(* A workflow execution (Agency.executeWorkflow).                          *)
(*   status    none | running | completed | failed | configError           *)
(*   step      the index of the step in progress                           *)
(*   inflight  the jobs dispatched and not settled                         *)
(*   inputs    job id -> the resolved inputs its agent was run with        *)
(*   results   job id -> [status: none | success | error, value]           *)
(*   handlerCalls  the error handlers invoked, in order: [job, handler]    *)
(*   log       the dispatches and settlements, in order                    *)
(***************************************************************************)
NoResult == [status |-> "none", value |-> Undefined]

NoExec ==
    [status |-> "none", workflow |-> Undefined, id |-> ExecutionId(Undefined, 0),
     steps |-> <<>>, step |-> 0, inflight |-> {},
     inputs |-> [j \in Jobs |-> <<>>], results |-> [j \in Jobs |-> NoResult],
     handlerCalls |-> <<>>, log |-> <<>>]

LogEntry(op, j) == [op |-> op, job |-> j]

\* A jobs.Y.output reference resolves only against a collected output; a
\* brief.X reference only against a key of the brief.
ResolvableAlways(binding, results) == TRUE

Resolvable(binding, results) ==
    /\ binding.kind = "job" => results[binding.job].status = "success"
    /\ binding.kind = "brief" => binding.key \in DOMAIN Brief

\* ResolveBinding as it would be if references were handed on unresolved.
ResolveBindingLiterally(binding, results) ==
    IF binding.kind = "literal" THEN binding.value
    ELSE IF binding.kind = "brief" THEN binding.key
    ELSE binding.job

ResolveBinding(binding, results) ==
    IF binding.kind = "literal" THEN binding.value
    ELSE IF binding.kind = "brief" THEN Brief[binding.key]
    ELSE results[binding.job].value

ResolveInputs(j, results) ==
    [i \in 1..Len(JobInputs[j]) |-> ResolveBinding(JobInputs[j][i], results)]

InputsResolvable(j, results) ==
    \A i \in 1..Len(JobInputs[j]) : Resolvable(JobInputs[j][i], results)

\* Begin step e.step: resolve the inputs of all its jobs from the results
\* collected so far, then dispatch every job of the step.
StartStep(e) ==
    IF e.step > Len(e.steps) THEN [e EXCEPT !.status = "completed"]
    ELSE LET jobs == e.steps[e.step].jobs
         IN  IF \E i \in 1..Len(jobs) : ~InputsResolvable(jobs[i], e.results)
             THEN [e EXCEPT !.status = "configError"]
             ELSE [e EXCEPT
                     !.inflight = @ \cup Range(jobs),
                     !.inputs = [j \in Jobs |->
                                   IF j \in Range(jobs)
                                   THEN ResolveInputs(j, e.results) ELSE @[j]],
                     !.log = @ \o [i \in 1..Len(jobs) |-> LogEntry("dispatch", jobs[i])]]

\* HandlerFor as it would be if the workflow-level handler took precedence.
HandlerForWorkflowFirst(j, workflowId) ==
    IF workflowId \in workflowErrorHandlers THEN "workflow"
    ELSE IF j \in errorHandlers THEN "job"
    ELSE None

\* The handler that takes a failure of job j: the job's own, else the
\* workflow's, else none.
HandlerFor(j, workflowId) ==
    IF j \in errorHandlers THEN "job"
    ELSE IF workflowId \in workflowErrorHandlers THEN "workflow"
    ELSE None

\* StepSettled as it would be if the step ended with its first failure.
StepSettledOrFailed(e) ==
    \/ e.inflight = {}
    \/ \E j \in Jobs : e.results[j].status = "error" /\ j \in Range(e.steps[e.step].jobs)

\* StepSettled as it would be if the step ended with its first settlement.
StepSettledByAny(e) == TRUE

\* A step is over when every job dispatched in it has settled.
StepSettled(e) == e.inflight = {}

\* The end of step e.step: invoke the handler of every failed job; a failure
\* no handler takes aborts the remaining steps, otherwise the next step begins.
FinishStep(e) ==
    LET jobs == e.steps[e.step].jobs
        failed == SelectSeq(jobs, LAMBDA j : e.results[j].status = "error")
        handled == SelectSeq(failed, LAMBDA j : HandlerFor(j, e.workflow) # None)
        e1 == [e EXCEPT !.handlerCalls = @ \o
                 [i \in 1..Len(handled) |->
                     [job |-> handled[i], handler |-> HandlerFor(handled[i], e.workflow)]]]
    IN  IF Len(handled) < Len(failed)
        THEN [e1 EXCEPT !.status = "failed"]
        ELSE StartStep([e1 EXCEPT !.step = @ + 1])

\* if (!agency.workflows[workflowId]) throw ...
WorkflowFound(workflowId) == workflowId \in DOMAIN Workflows

\* The execution ids after a call, had the id been generated before the check.
NextExecIdsEager(workflowId) == Append(execIds, ExecutionId(workflowId, clock))

\* The execution ids after a call of executeWorkflow(agency, workflowId).
NextExecIds(workflowId) ==
    IF WorkflowFound(workflowId)
    THEN Append(execIds, ExecutionId(workflowId, clock))
    ELSE execIds

\* AgencyFactory.executeWorkflow(agency, workflowId): an unknown id throws;
\* otherwise an execution id is generated and agency.executeWorkflow walks
\* the steps (here: begins the first one).  One execution runs at a time.
ExecuteWorkflow(workflowId) ==
    /\ calls < MaxCalls
    /\ WorkflowFound(workflowId) => exec.status # "running"
    /\ calls' = calls + 1
    /\ execIds' = NextExecIds(workflowId)
    /\ IF WorkflowFound(workflowId)
       THEN /\ lastCall' = [workflowId |-> workflowId, outcome |-> "started"]
            /\ exec' = StartStep([NoExec EXCEPT
                           !.status = "running",
                           !.workflow = workflowId,
                           !.id = ExecutionId(workflowId, clock),
                           !.steps = Workflows[workflowId],
                           !.step = 1])
       ELSE /\ lastCall' = [workflowId |-> workflowId,
                            outcome |-> "Workflow not found"]
            /\ exec' = exec
    /\ UNCHANGED <<agentVars, libVars, errorHandlers, workflowErrorHandlers, clock>>

\* The run of job j's agent settles: its result or error is stored under the
\* job id; when it was the last job of the step in flight, the step ends.
JobSettles(j, outcome) ==
    /\ exec.status = "running"
    /\ j \in exec.inflight
    /\ LET e1 == [exec EXCEPT
                    !.results[j] = [status |-> IF outcome.ok THEN "success" ELSE "error",
                                    value |-> outcome.value],
                    !.inflight = @ \ {j},
                    !.log = Append(@, LogEntry("settle", j))]
       IN  exec' = IF StepSettled(e1) THEN FinishStep(e1) ELSE e1
    /\ UNCHANGED <<agentVars, libVars, errorHandlers, workflowErrorHandlers, clock, execIds,
                   calls, lastCall>>

\* Date.now() moves on.
Tick ==
    /\ clock < MaxClock
    /\ clock' = clock + 1
    /\ UNCHANGED <<agentVars, libVars, errorHandlers, workflowErrorHandlers, execIds, calls,
                   lastCall, exec>>

\* An agency with no error handler configured and no workflow call made.
AgencyIdle ==
    /\ errorHandlers = {}
    /\ workflowErrorHandlers = {}
    /\ clock = 0
    /\ execIds = <<>>
    /\ calls = 0
    /\ lastCall = [workflowId |-> Undefined, outcome |-> Undefined]
    /\ exec = NoExec

\* createAgency(config)
AgencyInit ==
    /\ \E config \in ErrorHandlerConfigs : errorHandlers = RegisteredHandlers(config)
    /\ \E config \in WorkflowErrorHandlerConfigs :
          workflowErrorHandlers = RegisteredHandlers(config)
    /\ clock = 0
    /\ execIds = <<>>
    /\ calls = 0
    /\ lastCall = [workflowId |-> Undefined, outcome |-> Undefined]
    /\ exec = NoExec

(***************************************************************************)
(* TeamFactory.createTeamFromConfig (src/teamfactory-ex.md).  Team.js is   *)
(* imported by the factory but is not part of the sources: what the Team   *)
(* constructor does with the jobs it is given is modelled from spec.md     *)
(* 4.5.  AgentFactory.createAgent is taken to return an agent.             *)
(***************************************************************************)
AgentIds == {"a1", "a2", "a3"}
JobIds == {"j1", "j2"}
TeamIds == {"t1", "t0"}         \* config.team has "t1" only

\* teamConfig.agents: the agent ids the team lists, in order.
TeamAgentLists == {<<>>, <<"a1">>, <<"a2">>, <<"a1", "a2">>, <<"a2", "a1">>}

\* teamConfig.jobs: missing, not a map of job definitions, or a map from
\* job id to the definition of a job, of which the agent id is kept.
JobMap(kind, map) == [kind |-> kind, map |-> map]
NoJobs == [j \in {} |-> "a1"]
JobMaps ==
    {JobMap("missing", NoJobs), JobMap("malformed", NoJobs)}
    \cup {JobMap("map", map) :
             map \in UNION {[ids -> AgentIds] : ids \in SUBSET JobIds}}

\* The configuration objects: config.agents (the ids that have an agent
\* configuration) and config.team.t1.
TeamFactoryConfigs ==
    [agents : SUBSET {"a1", "a2"}, teamAgents : TeamAgentLists, jobs : JobMaps]

NoTeam ==
    [status |-> "none", teamId |-> Undefined, agents |-> <<>>, jobs |-> NoJobs,
     warned |-> <<>>]

\* CreateAgents as it would be if a missing agent configuration were fatal.
RECURSIVE CreateAgentsStrict(_, _, _)
CreateAgentsStrict(agentIds, config, acc) ==
    IF agentIds = <<>> THEN acc
    ELSE IF Head(agentIds) \notin config.agents
    THEN [acc EXCEPT !.status = "threw"]
    ELSE CreateAgentsStrict(Tail(agentIds), config,
                            [acc EXCEPT !.agents = Append(@, Head(agentIds))])

\* for (const agentId of teamConfig.agents): warn and continue when
\* config.agents[agentId] is missing, else agents[agentId] = createAgent(...)
RECURSIVE CreateAgents(_, _, _)
CreateAgents(agentIds, config, acc) ==
    IF agentIds = <<>> THEN acc
    ELSE IF Head(agentIds) \notin config.agents
    THEN CreateAgents(Tail(agentIds), config,
                      [acc EXCEPT !.warned = Append(@, Head(agentIds))])
    ELSE CreateAgents(Tail(agentIds), config,
                      [acc EXCEPT !.agents = Append(@, Head(agentIds))])

\* teamConfig.jobs || {}
JobsOrEmpty(jobs) == IF jobs.kind = "missing" THEN JobMap("map", NoJobs) ELSE jobs

\* new Team({name, description, agents, jobs, workflow}), by spec.md 4.5:
\* fails when the job map is malformed; a job whose agent is not among the
\* team's agents is skipped.
NewTeam(acc, jobs) ==
    IF jobs.kind = "malformed" THEN [acc EXCEPT !.status = "threw"]
    ELSE LET kept == {j \in DOMAIN jobs.map : jobs.map[j] \in Range(acc.agents)}
         IN  [acc EXCEPT !.status = "team",
                         !.jobs = [j \in kept |-> jobs.map[j]]]

\* createTeamFromConfig(config, teamId)
CreateTeamFromConfigOp(config, teamId) ==
    LET call == [NoTeam EXCEPT !.teamId = teamId]
    IN  IF teamId # "t1" THEN [call EXCEPT !.status = "threw"]
        ELSE LET acc == CreateAgents(config.teamAgents, config, call)
             IN  IF acc.status = "threw" THEN acc
                 ELSE NewTeam(acc, JobsOrEmpty(config.jobs))

CreateTeamFromConfig(teamId) ==
    /\ createdTeam' = CreateTeamFromConfigOp(teamConfig, teamId)
    /\ UNCHANGED <<agentVars, agencyVars, memoryVars, toolVars, emitterVars,
                   registryVars, teamConfig>>

\* No factory call made.
TeamIdle ==
    /\ teamConfig = [agents |-> {}, teamAgents |-> <<>>,
                     jobs |-> JobMap("missing", NoJobs)]
    /\ createdTeam = NoTeam

\* A factory holding one of the configuration objects.
TeamInit ==
    /\ teamConfig \in TeamFactoryConfigs
    /\ createdTeam = NoTeam

InitAgent == AgentInit /\ AgencyIdle /\ MemoryIdle /\ ToolsIdle /\ EmitterIdle /\ TeamIdle

NextAgent ==
    \/ \E r \in RunIds, input \in Inputs : RunStart(r, input)
    \/ \E r \in RunIds : RunLlmFails(r)
    \/ \E r \in RunIds, response \in Responses : RunLlm1Returns(r, response)
    \/ \E r \in RunIds : RunToolsReturn(r)
    \/ \E r \in RunIds, response \in Responses : RunLlm2Returns(r, response)

SpecAgent == InitAgent /\ [][NextAgent]_vars

\* The promise that invocation r of run awaits settles: generateContent
\* resolves or rejects, handleToolCalls resolves.
RunContinues(r) ==
    \/ RunLlmFails(r)
    \/ \E response \in Responses : RunLlm1Returns(r, response)
    \/ RunToolsReturn(r)
    \/ \E response \in Responses : RunLlm2Returns(r, response)

\* Agent.run with every awaited promise settling in the end.
SpecAgentLive ==
    InitAgent /\ [][NextAgent]_vars /\ \A r \in RunIds : WF_vars(RunContinues(r))

InitWorkflow == AgentInit /\ AgencyInit /\ MemoryIdle /\ ToolsIdle /\ EmitterIdle /\ TeamIdle

NextWorkflow ==
    \/ \E workflowId \in WorkflowIds : ExecuteWorkflow(workflowId)
    \/ \E j \in Jobs, outcome \in JobOutcomes : JobSettles(j, outcome)
    \/ Tick

SpecWorkflow == InitWorkflow /\ [][NextWorkflow]_vars

\* The limits getHistory is called with (NotGiven: the default parameter).
Limits == {NotGiven} \cup {Given(n) : n \in 0..MaxLimit}

InitMemory == AgentInit /\ AgencyIdle /\ MemoryInit /\ ToolsIdle /\ EmitterIdle /\ TeamIdle

NextMemory ==
    \/ \E entry \in HistoryEntries : CallAddToHistory(entry)
    \/ \E entry \in HistoryEntries : CallAddToHistoryAsync(entry)
    \/ \E limit \in Limits : CallGetHistory(limit)
    \/ \E key \in Keys, value \in MemValues : CallRemember(key, value)
    \/ \E key \in Keys, value \in MemValues : CallRememberAsync(key, value)
    \/ \E key \in Keys : CallForget(key)
    \/ CallClear

SpecMemory == InitMemory /\ [][NextMemory]_vars

InitTools == AgentInit /\ AgencyIdle /\ MemoryIdle /\ ToolsInit /\ EmitterIdle /\ TeamIdle

NextTools ==
    \/ \E toolCalls \in Batches : HandleToolCallsStart(toolCalls)
    \/ \E outcome \in ToolOutcomes : ToolSettles(outcome)
    \/ TimerFires

SpecTools == InitTools /\ [][NextTools]_vars

InitEmitter == AgentInit /\ AgencyIdle /\ MemoryIdle /\ ToolsIdle /\ EmitterIdle /\ TeamIdle

\* Synchronous emission: on, once, emit.
NextEmitter ==
    \/ \E eventName \in SubscribedNames, once \in BOOLEAN : OnCall(eventName, once)
    \/ \E eventName \in EmittedNames : EmitCall(eventName)

SpecEmitter == InitEmitter /\ [][NextEmitter]_vars

\* Asynchronous emission: on, once, emitAsync and the listeners' promises.
NextEmitAsync ==
    \/ \E eventName \in SubscribedNames, once \in BOOLEAN : OnCall(eventName, once)
    \/ \E eventName \in EmittedNames : EmitAsyncCall(eventName)
    \/ \E i \in 1..MaxSubs, ok \in BOOLEAN : ListenerSettles(i, ok)

\* The emitter with listeners that unsubscribe listeners during an emit.
NextEmitUnsubscribing ==
    \/ \E eventName \in SubscribedNames, once \in BOOLEAN : OnCall(eventName, once)
    \/ \E eventName \in EmittedNames : EmitUnsubscribingCall(eventName)

SpecEmitUnsubscribing == InitEmitter /\ [][NextEmitUnsubscribing]_vars

SpecEmitAsync == InitEmitter /\ [][NextEmitAsync]_vars

InitRegistry ==
    AgentInitAnyTools /\ AgencyIdle /\ MemoryIdle /\ ToolsIdle /\ EmitterIdle /\ TeamIdle

\* The names removeTool is called with ("ghost" is never registered).
NextRegistry ==
    \/ \E tool \in ToolArgs : CallAddTool(tool)
    \/ \E toolName \in ToolNames : CallRemoveTool(toolName)

SpecRegistry == InitRegistry /\ [][NextRegistry]_vars

InitTeam ==
    AgentInit /\ AgencyIdle /\ MemoryIdle /\ ToolsIdle /\ EmitterIdle /\ TeamInit

NextTeam == \E teamId \in TeamIds : CreateTeamFromConfig(teamId)

SpecTeam == InitTeam /\ [][NextTeam]_vars

(***************************************************************************)
(* Properties of Agent.run (checked under SpecAgent).                      *)
(***************************************************************************)
NoFunctionCall(response) ==
    \A i \in 1..Len(response) : response[i].kind # "functionCall"

Last(seq) == seq[Len(seq)]

Count(seq, x) == Cardinality({i \in 1..Len(seq) : seq[i] = x})

EventNames(r) == [i \in 1..Len(events[r]) |-> events[r][i].name]

\* The model invocations and tool batches of an invocation of run, in order.
ModelOps(r) ==
    SelectSeq(runs[r].ops, LAMBDA op : op \in {"generateContent", "handleToolCalls"})

\* C7: when the first model response holds no function-call part and nothing
\* throws, the step that receives it ends the run: one model invocation and
\* no tool batch were made, the result is the processor's output for that
\* response, exactly one history entry {input, response} is appended by that
\* step, and the agent's status is idle.
C7_PlainResponseRun ==
    [][\A r \in RunIds :
         ( /\ runs[r].pc = "llm1"
           /\ runs'[r].pc # "llm1"
           /\ NoFunctionCall(runs'[r].resp1)
           /\ runs'[r].error = Undefined )
         =>
         LET entry == [input |-> runs'[r].input, response |-> runs'[r].result]
         IN  /\ runs'[r].pc = "done"
             /\ runs'[r].ops = <<"inputFormatter", "generateContent",
                                 "responseProcessor", "addToHistory">>
             /\ runs'[r].result = ResponseProcessor(runs'[r].resp1)
             /\ runs'[r].input = runs[r].input
             /\ conversationHistory' = Append(conversationHistory, entry)
             /\ status' = "idle"
             /\ Count(EventNames(r)', "runCompleted") = 1
    ]_vars

C7_Witness ==
    \E r \in RunIds :
        /\ runs[r].pc = "done"
        /\ NoFunctionCall(runs[r].resp1)
        /\ runs[r].result = "AB"
        /\ Len(conversationHistory) > 0

\* C8: when the first model response holds a function-call part, the run
\* makes its first model invocation, then the tool batch, then a second model
\* invocation, and no other; the value it returns is the processed second
\* response, and that value is what it stores in the history.
C8_ToolCallRun ==
    \A r \in RunIds :
        ~NoFunctionCall(runs[r].resp1) =>
            /\ runs[r].pc = "tools" =>
                 ModelOps(r) = <<"generateContent", "handleToolCalls">>
            /\ runs[r].pc \in {"llm2", "done", "failed"} =>
                 ModelOps(r) = <<"generateContent", "handleToolCalls",
                                 "generateContent">>
            /\ runs[r].pc = "done" =>
                 /\ runs[r].result = ResponseProcessor(runs[r].resp2)
                 /\ \E i \in 1..Len(conversationHistory) :
                       conversationHistory[i] =
                          [input |-> runs[r].input, response |-> runs[r].result]
                 /\ Len(runs[r].toolResults) = Len(ToolCallsParts(runs[r].resp1))

C8_Witness ==
    \E r \in RunIds :
        /\ runs[r].pc = "done"
        /\ ~NoFunctionCall(runs[r].resp1)
        /\ runs[r].result = "AB"
        /\ ModelOps(r) = <<"generateContent", "handleToolCalls", "generateContent">>

\* C9: when the input formatter, a model invocation or the response processor
\* throws, the step in which it throws sets the status to error and appends
\* nothing to the history; the run has emitted exactly one runError and no
\* runCompleted, made no call after the failing one (the failing model call
\* is not repeated), and raises the error of the call that failed.
C9_FailedRun ==
    [][\A r \in RunIds :
         (runs[r].pc # "failed" /\ runs'[r].pc = "failed") =>
            /\ status' = "error"
            /\ conversationHistory' = conversationHistory
            /\ Count(EventNames(r)', "runError") = 1
            /\ Count(EventNames(r)', "runCompleted") = 0
            /\ Count(runs'[r].ops, "addToHistory") = 0
            /\ runs'[r].error \in {"formatterError", "llmError", "processorError"}
            /\ runs'[r].error = "formatterError" <=>
                  Last(runs'[r].ops) = "inputFormatter"
            /\ runs'[r].error = "llmError" <=>
                  Last(runs'[r].ops) = "generateContent"
            /\ runs'[r].error = "processorError" <=>
                  Last(runs'[r].ops) = "responseProcessor"
            /\ runs'[r].error = "llmError" => runs'[r].ops = runs[r].ops
            /\ Count(runs'[r].ops, "generateContent") <= 2
    ]_vars

\* A run whose second model invocation failed.
C9_Witness ==
    \E r \in RunIds :
        /\ runs[r].pc = "failed"
        /\ runs[r].error = "llmError"
        /\ Count(runs[r].ops, "generateContent") = 2
        /\ status = "error"

\* C10: the status is idle, working or error; every change of it that
\* setStatus reports (a statusChanged event whose old and new status differ)
\* is into working, or from working to idle or error; and a step that changes
\* the status emits a statusChanged event that carries the new status.
C10_StatusMachine ==
    [][ /\ status' \in Statuses
        /\ \A r \in RunIds : \A i \in 1..Len(events'[r]) :
              LET e == events'[r][i]
              IN  (e.name = "statusChanged" /\ e.oldStatus # e.newStatus) =>
                     \/ e.newStatus = "working"
                     \/ e.oldStatus = "working" /\ e.newStatus \in {"idle", "error"}
        /\ status' # status =>
              \E r \in RunIds :
                 \E i \in (Len(events[r]) + 1)..Len(events'[r]) :
                    /\ events'[r][i].name = "statusChanged"
                    /\ events'[r][i].newStatus = status'
    ]_vars

\* Invocation r has started and has neither returned nor thrown.
InFlight(r) == runs[r].pc \in {"llm1", "tools", "llm2"}

\* C33: while an invocation of run is in flight on the agent, the agent's
\* status is working, also when two invocations overlap.
C33_WorkingWhileInFlight ==
    (\E r \in RunIds : InFlight(r)) => status = "working"

\* The part of C33 that the code keeps: the status is working while the
\* only invocation begun so far is in flight.
C33_WorkingWhileAlone ==
    \A r \in RunIds :
        (InFlight(r) /\ \A q \in RunIds \ {r} : runs[q].pc = "new") =>
            status = "working"

(***************************************************************************)
(* Properties of the workflow engine (checked under SpecWorkflow).         *)
(***************************************************************************)
\* The index of the step of the execution's workflow that holds job j
\* (0 when no step does).
StepOf(j) ==
    LET holding == {k \in 1..Len(exec.steps) : j \in Range(exec.steps[k].jobs)}
    IN  IF holding = {} THEN 0 ELSE CHOOSE k \in holding : TRUE

\* The positions of the log at which job j was dispatched / settled.
DispatchedAt(j) == {k \in 1..Len(exec.log) : exec.log[k] = LogEntry("dispatch", j)}
SettledAt(j) == {k \in 1..Len(exec.log) : exec.log[k] = LogEntry("settle", j)}

JobsAfterStep(n) == {j \in Jobs : StepOf(j) > n}

\* C1: a job is dispatched (and its input references resolved) only after
\* every job of every earlier step has settled, and each job at most once.
C1_StepsInOrder ==
    \A j \in Jobs :
        /\ Cardinality(DispatchedAt(j)) <= 1
        /\ exec.inputs[j] # <<>> => DispatchedAt(j) # {}
        /\ \A k \in DispatchedAt(j) :
              /\ StepOf(j) > 0
              /\ \A earlier \in Jobs :
                    (StepOf(earlier) > 0 /\ StepOf(earlier) < StepOf(j)) =>
                        \E i \in SettledAt(earlier) : i < k

\* jobD of "main" was dispatched, after jobB and jobC settled in either order.
C1_Witness ==
    /\ exec.workflow = "main"
    /\ DispatchedAt("jobD") # {}
    /\ \E b \in SettledAt("jobB"), c \in SettledAt("jobC") : c < b

\* C2: a failed job of a parallel step does not end the step: an execution
\* that is over has a result entry (success or error) for every job it
\* dispatched, and the settled jobs keep their entries; when a job of the
\* step failed and no handler is registered for it, no job of a later step
\* is dispatched and the execution has failed once the step has settled.
C2_PartialFailure ==
    /\ exec.status \in {"failed", "completed", "configError"} =>
          \A j \in Jobs : DispatchedAt(j) # {} => exec.results[j].status # "none"
    /\ \A j \in Jobs : (SettledAt(j) # {}) <=> (exec.results[j].status # "none")
    /\ \A j \in Jobs :
          ( /\ StepOf(j) > 0
            /\ exec.steps[StepOf(j)].type = "parallel"
            /\ exec.results[j].status = "error"
            /\ j \notin errorHandlers
            /\ exec.workflow \notin workflowErrorHandlers )
          => /\ \A later \in JobsAfterStep(StepOf(j)) :
                   DispatchedAt(later) = {} /\ exec.results[later] = NoResult
             /\ exec.inflight = {} => exec.status = "failed"

\* jobB failed first, jobC succeeded after it, and the workflow was aborted.
C2_Witness ==
    /\ exec.workflow = "main"
    /\ exec.status = "failed"
    /\ exec.results["jobB"].status = "error"
    /\ exec.results["jobC"] = [status |-> "success", value |-> "out2"]
    /\ \E b \in SettledAt("jobB"), c \in SettledAt("jobC") : b < c
    /\ exec.results["jobD"] = NoResult

HandlerCallsFor(j) ==
    SelectSeq(exec.handlerCalls, LAMBDA c : c.job = j)

\* C3: for a failed job of a step that is over, the job's own handler is
\* invoked when one is registered, else the workflow's handler when one is
\* registered, else none is invoked, the execution fails and no later step
\* runs; and the step that fails the execution leaves the results of all
\* other jobs as they were.
C3_HandlerResolution ==
    [][\A j \in Jobs :
         /\ ( /\ exec'.results[j].status = "error"
              /\ exec'.inflight = {} )
            => /\ j \in errorHandlers =>
                     HandlerCallsFor(j)' = <<[job |-> j, handler |-> "job"]>>
               /\ (j \notin errorHandlers /\ exec'.workflow \in workflowErrorHandlers) =>
                     HandlerCallsFor(j)' = <<[job |-> j, handler |-> "workflow"]>>
               /\ (j \notin errorHandlers /\ exec'.workflow \notin workflowErrorHandlers) =>
                     /\ HandlerCallsFor(j)' = <<>>
                     /\ exec'.status = "failed"
                     /\ \A later \in JobsAfterStep(StepOf(j))' :
                           exec'.results[later] = NoResult /\ exec'.inputs[later] = <<>>
         /\ exec'.results[j].status # "error" => HandlerCallsFor(j)' = <<>>
         /\ (exec.status = "running" /\ exec'.status = "failed") =>
               (j \notin exec.inflight => exec'.results[j] = exec.results[j])
    ]_vars

\* jobB failed and its own handler took it, though a workflow handler exists.
C3_Witness ==
    /\ exec.workflow = "main"
    /\ "jobB" \in errorHandlers
    /\ "main" \in workflowErrorHandlers
    /\ exec.handlerCalls = <<[job |-> "jobB", handler |-> "job"]>>

\* The same, with no handler at all: the collected results stay.
C3_WitnessAbort ==
    /\ exec.workflow = "main"
    /\ exec.status = "failed"
    /\ exec.results["jobA"].status = "success"
    /\ exec.results["jobD"].status = "error"

\* C4: the inputs a dispatched job was run with are, binding by binding: the
\* output recorded for job Y (of an earlier step) for jobs.Y.output, the
\* brief's value for brief.X, and the literal itself for a literal.
C4_InputResolution ==
    \A j \in Jobs :
        DispatchedAt(j) # {} =>
            /\ Len(exec.inputs[j]) = Len(JobInputs[j])
            /\ \A i \in 1..Len(JobInputs[j]) :
                  LET binding == JobInputs[j][i]
                  IN  /\ binding.kind = "job" =>
                            /\ exec.results[binding.job].status = "success"
                            /\ exec.inputs[j][i] = exec.results[binding.job].value
                            /\ StepOf(binding.job) < StepOf(j)
                      /\ binding.kind = "brief" =>
                            exec.inputs[j][i] = Brief[binding.key]
                      /\ binding.kind = "literal" =>
                            exec.inputs[j][i] = binding.value

\* jobD was run with jobB's recorded output and the brief's topic.
C4_Witness ==
    /\ exec.workflow = "main"
    /\ exec.results["jobA"] = [status |-> "success", value |-> "out1"]
    /\ exec.results["jobB"] = [status |-> "success", value |-> "out2"]
    /\ exec.inputs["jobD"] = <<"out2", "AI">>

\* The jobs.Y.output references of job j that do not point to a job of an
\* earlier step of the execution's workflow.
BadReferences(j) ==
    {i \in 1..Len(JobInputs[j]) :
        /\ JobInputs[j][i].kind = "job"
        /\ ~(StepOf(JobInputs[j][i].job) > 0
             /\ StepOf(JobInputs[j][i].job) < StepOf(j))}

\* C5: a job with a jobs.Y.output reference to a job of its own or a later
\* step is never dispatched and gets no resolved input; when the execution
\* reaches its step it ends as a configuration error, and it never completes.
C5_NoForwardReference ==
    /\ \A j \in Jobs :
          (StepOf(j) > 0 /\ BadReferences(j) # {}) =>
              /\ DispatchedAt(j) = {}
              /\ exec.inputs[j] = <<>>
              /\ exec.results[j] = NoResult
              /\ exec.status # "completed"
              /\ (exec.step = StepOf(j) /\ exec.status # "running") =>
                     /\ exec.status = "configError"
                     /\ \A k \in 1..Len(exec.steps[exec.step].jobs) :
                           DispatchedAt(exec.steps[exec.step].jobs[k]) = {}
    /\ exec.status = "configError" =>
          \E k \in 1..Len(exec.steps[exec.step].jobs) :
              \E i \in 1..Len(JobInputs[exec.steps[exec.step].jobs[k]]) :
                  LET binding == JobInputs[exec.steps[exec.step].jobs[k]][i]
                  IN  /\ binding.kind = "job"
                      /\ exec.results[binding.job].status # "success"

\* "sameStep" reached the step in which jobD reads jobB of the same step.
C5_Witness ==
    /\ exec.workflow = "sameStep"
    /\ exec.status = "configError"
    /\ exec.step = 2
    /\ exec.results["jobA"].status = "success"

\* C6: a call of executeWorkflow with an unregistered workflow id fails with
\* "Workflow not found", generates no execution id and leaves the execution
\* state (dispatches, results) untouched.
C6_UnknownWorkflow ==
    [][(calls' = calls + 1 /\ lastCall'.workflowId \notin DOMAIN Workflows) =>
          /\ lastCall'.outcome = "Workflow not found"
          /\ execIds' = execIds
          /\ exec' = exec
    ]_vars

\* The unknown id was called while an earlier execution was still running.
C6_Witness ==
    /\ lastCall = [workflowId |-> "absent", outcome |-> "Workflow not found"]
    /\ exec.status = "running"
    /\ Len(execIds) = 1

\* C27: a run makes at most two model invocations and at most one tool
\* batch; the step that receives the second response ends the run, also
\* when that response holds function-call parts (its processed text is the
\* result); a model invocation that fails ends the run with no further
\* call; and a run that has ended makes no call.
C27_TwoInvocations ==
    [][\A r \in RunIds :
         /\ Count(runs'[r].ops, "generateContent") <= 2
         /\ Count(runs'[r].ops, "handleToolCalls") <= 1
         /\ (runs[r].pc = "llm2" /\ runs'[r].pc # "llm2") =>
               /\ runs'[r].pc \in {"done", "failed"}
               /\ ModelOps(r)' = ModelOps(r)
               /\ runs'[r].pc = "done" =>
                     runs'[r].result = ResponseProcessor(runs'[r].resp2)
         /\ (runs[r].pc \in {"llm1", "llm2"} /\ runs'[r].error = "llmError") =>
               /\ runs'[r].pc = "failed"
               /\ runs'[r].ops = runs[r].ops
         /\ runs[r].pc \in {"done", "failed"} => runs'[r] = runs[r]
    ]_vars

\* A run ended by a second response that holds function-call parts.
C27_Witness ==
    \E r \in RunIds :
        /\ runs[r].pc = "done"
        /\ ~NoFunctionCall(runs[r].resp2)
        /\ runs[r].result = "C"
        /\ ModelOps(r) = <<"generateContent", "handleToolCalls", "generateContent">>

\* An event of a run by its name and, for statusChanged, the new status.
Label(name, to) == [name |-> name, to |-> to]
Labels(r) ==
    [i \in 1..Len(events[r]) |-> Label(events[r][i].name, events[r][i].newStatus)]

IsPrefix(p, seq) == Len(p) <= Len(seq) /\ SubSeq(seq, 1, Len(p)) = p

\* The events of a run up to its end, without and with tool calls, and the
\* events that end it.
PlainEvents ==
    <<Label("statusChanged", "working"), Label("runStarted", Undefined),
      Label("inputFormatted", Undefined), Label("llmResponseReceived", Undefined)>>
ToolEvents ==
    PlainEvents \o <<Label("toolCallsDetected", Undefined),
                     Label("toolCallsHandled", Undefined)>>
CompletedEvents ==
    <<Label("statusChanged", "idle"), Label("runCompleted", Undefined)>>
FailedEvents ==
    <<Label("statusChanged", "error"), Label("runError", Undefined)>>

\* The events a run has emitted once the first response is in: those of a
\* run with tool calls exactly when that response held function calls.
EventsOf(r) == IF HasToolCalls(runs[r].resp1) THEN ToolEvents ELSE PlainEvents

C26_FunctionTurn ==
    \A r \in RunIds :
        runs[r].pc = "llm2" =>
           LET toolCalls == ToolCallsParts(runs[r].resp1)
               turn == runs[r].functionTurn
           IN  /\ Len(turn) = Len(toolCalls)
               /\ \A i \in 1..Len(turn) :
                     LET entry == runs[r].toolResults[i]
                     IN  /\ turn[i].name = toolCalls[i].name
                         /\ entry.error = Undefined => turn[i].result = entry.result
                         /\ entry.error # Undefined => turn[i].result = entry.error

(***************************************************************************)
(* Properties of MemoryManager (checked under SpecMemory).                 *)
(***************************************************************************)
Min(a, b) == IF a < b THEN a ELSE b

\* The last n entries of seq (all of it when n >= Len(seq)).
LastN(seq, n) == SubSeq(seq, Len(seq) - Min(n, Len(seq)) + 1, Len(seq))

C12_RememberTwice ==
    [][(memCalls' = memCalls + 1 /\ memLast'.op = "remember") =>
          /\ IF Lookup(keyValueStore, memLast'.key) # memLast'.value
             THEN memLast'.emitted = <<MemEvent("memoryUpdated", "emit")>>
             ELSE memLast'.emitted = <<>>
          /\ ( /\ memLast.op = "remember"
               /\ memLast.key = memLast'.key
               /\ memLast.value = memLast'.value )
             => memLast'.emitted = <<>>
    ]_vars

\* C19: getHistory(n) returns the last min(n, length) entries of the history
\* in order (none for n = 0), getHistory() returns the whole history, and the
\* stored history is unchanged.
C19_GetHistory ==
    [][(memCalls' = memCalls + 1 /\ memLast'.op = "getHistory") =>
          /\ conversationHistory' = conversationHistory
          /\ memLast'.limit.given =>
                memLast'.returned = LastN(conversationHistory, memLast'.limit.value)
          /\ ~memLast'.limit.given => memLast'.returned = conversationHistory
    ]_vars

\* C20: rememberAsync and addToHistoryAsync leave the history and the
\* key/value store as remember and addToHistory, called in the same state
\* with the same arguments, leave them.
C20_AsyncVariants ==
    [][(memCalls' = memCalls + 1) =>
          /\ memLast'.op = "rememberAsync" =>
                LET m == MemoryRemember(MemoryState, memLast'.key, memLast'.value)
                IN  /\ conversationHistory' = m.history
                    /\ keyValueStore' = m.store
          /\ memLast'.op = "addToHistoryAsync" =>
                LET m == MemoryAddToHistory(MemoryState, memLast'.entry)
                IN  /\ conversationHistory' = m.history
                    /\ keyValueStore' = m.store
    ]_vars

\* rememberAsync replaced a value, and addToHistoryAsync evicted an entry.
C20_Witness ==
    \/ /\ memLast.op = "rememberAsync"
       /\ memLast.value = "v2"
       /\ memLast.emitted # <<>>
       /\ keyValueStore[memLast.key] = "v2"
    \/ /\ memLast.op = "addToHistoryAsync"
       /\ Len(added) > Len(conversationHistory)

\* C21: forget(key) of a key the store holds removes that key, emits one
\* memoryForgotten event carrying the key and the value it held, and
\* returns true; of a key the store does not hold it returns false, emits
\* nothing and leaves the store as it was; either way the history and
\* every other key are as before.
C21_Forget ==
    [][(memCalls' = memCalls + 1 /\ memLast'.op = "forget") =>
          LET key == memLast'.key
          IN  /\ conversationHistory' = conversationHistory
              /\ \A k \in Keys \ {key} : keyValueStore'[k] = keyValueStore[k]
              /\ IF keyValueStore[key] # Absent
                 THEN /\ keyValueStore'[key] = Absent
                      /\ memLast'.emitted =
                            <<MemoryForgotten(key, keyValueStore[key])>>
                      /\ memLast'.returned = <<TRUE>>
                 ELSE /\ keyValueStore' = keyValueStore
                      /\ memLast'.emitted = <<>>
                      /\ memLast'.returned = <<FALSE>>
    ]_vars

\* A key was forgotten while another key and the history were held.
C21_Witness ==
    /\ memLast.op = "forget"
    /\ memLast.returned = <<TRUE>>
    /\ Len(memLast.emitted) = 1
    /\ memLast.emitted[1].value = "v1"
    /\ keyValueStore[memLast.key] = Absent
    /\ \E k \in Keys : keyValueStore[k] = "v2"
    /\ conversationHistory # <<>>

\* forget of a key the store does not hold, with another key held.
C21_WitnessAbsent ==
    /\ memLast.op = "forget"
    /\ memLast.returned = <<FALSE>>
    /\ \E k \in Keys : keyValueStore[k] # Absent

\* The number of emit and emitAsync calls of the event in a call on the
\* manager; each of them calls every listener of the event once.
Notifications(emitted, name) ==
    Cardinality({i \in 1..Len(emitted) : emitted[i].name = name})

\* C32: one call of addToHistoryAsync notifies the historyUpdated listeners
\* once, as one call of addToHistory does.
C32_AsyncNotifiesOnce ==
    memLast.op \in {"addToHistory", "addToHistoryAsync"} =>
        Notifications(memLast.emitted, "historyUpdated") = 1

\* The part of C32 that the code keeps: addToHistory notifies once, and
\* rememberAsync notifies as often as remember would.
C32_SyncNotifiesOnce ==
    /\ memLast.op = "addToHistory" =>
           Notifications(memLast.emitted, "historyUpdated") = 1
    /\ memLast.op = "rememberAsync" =>
           Notifications(memLast.emitted, "memoryUpdated") <= 1

(***************************************************************************)
(* Properties of ToolHandler (checked under SpecTools).                    *)
(***************************************************************************)
\* Call i of the batch has its entry (the loop has moved past it).
Handled(i) == i < batch.index

AllFailed(a) == \A j \in 1..Len(a) : ~a[j]

\* C13: the tool function of a call is invoked until it first returns or
\* until retryAttempts invocations have thrown: never more than retryAttempts
\* times, never again after a success; the timer set after the failed
\* attempt j is retryDelay * j; the entry of the call is an error only when
\* retryAttempts invocations were made and all threw, and a result when
\* invocation k <= retryAttempts was the first to return, after exactly k
\* invocations.
C13_RetryBound ==
    \A i \in 1..Len(batch.calls) :
        LET a == batch.attempts[i]
            w == batch.waits[i]
        IN  /\ Len(a) <= retryAttempts
            /\ \A j \in 1..(Len(a) - 1) : ~a[j]
            /\ \A j \in 1..Len(w) : w[j] = retryDelay * j
            /\ Len(w) <= Len(a)
            /\ NotCallable(batch.calls[i], tools) => a = <<>>
            /\ (Handled(i) /\ ~NotCallable(batch.calls[i], tools)) =>
                  /\ Len(a) >= 1
                  /\ Len(w) = Len(a) - 1
                  /\ (batch.results[i].error # Undefined) <=>
                        (AllFailed(a) /\ Len(a) = retryAttempts)
                  /\ (batch.results[i].result # Undefined) <=> a[Len(a)]

\* With the default configuration a tool threw three times, after waits of
\* 1000 and 2000, and its entry is the error.
C13_Witness ==
    \E i \in 1..Len(batch.calls) :
        /\ Handled(i)
        /\ retryAttempts = DefaultRetryAttempts
        /\ batch.attempts[i] = <<FALSE, FALSE, FALSE>>
        /\ batch.waits[i] = <<1000, 2000>>
        /\ batch.results[i] = ErrorEntry("search", "boom")

\* A tool that returned on its second attempt.
C13_WitnessSuccess ==
    \E i \in 1..Len(batch.calls) :
        /\ Handled(i)
        /\ batch.attempts[i] = <<FALSE, TRUE>>
        /\ batch.results[i] = ResultEntry("search", "data")

\* C14: handleToolCalls returns one entry per call, in call order; the entry
\* of a call is an error entry when its tool is missing, not callable or
\* threw on all its attempts, and a result entry otherwise, never both; and
\* every call whose tool is callable has its tool invoked, whatever became
\* of the calls before it.
C14_BatchIsolation ==
    /\ batch.pc # "idle" =>
          /\ Len(batch.results) = Min(batch.index - 1, Len(batch.calls))
          /\ batch.index <= Len(batch.calls) + 1
    /\ \A i \in 1..Len(batch.results) :
          LET entry == batch.results[i]
              failed == /\ batch.attempts[i] # <<>>
                        /\ AllFailed(batch.attempts[i])
          IN  /\ entry.toolName = batch.calls[i]
              /\ (entry.error # Undefined) <=>
                    (NotCallable(batch.calls[i], tools) \/ failed)
              /\ (entry.result # Undefined) <=> (entry.error = Undefined)
    /\ batch.pc = "done" =>
          /\ Len(batch.results) = Len(batch.calls)
          /\ \A i \in 1..Len(batch.calls) :
                ~NotCallable(batch.calls[i], tools) => batch.attempts[i] # <<>>

\* A missing tool, then a tool that threw on every attempt, then one that
\* returned: two error entries and a result entry, in call order.
C14_Witness ==
    /\ batch.pc = "done"
    /\ batch.calls = <<"ghost", "search", "search">>
    /\ batch.results[1].error # Undefined
    /\ batch.results[2] = ErrorEntry("search", "boom")
    /\ batch.results[3] = ResultEntry("search", "data")

\* The invocations of tool functions that have not settled after the first
\* n entries of the log.
PendingAfter(log, n) ==
    Cardinality({p \in 1..n : log[p].op = "invoke"})
        - Cardinality({p \in 1..n : log[p].op = "settle"})

\* C34: the calls of a batch are executed one after another, in call order:
\* the log never goes back to an earlier call; when the tool function of a
\* call is first invoked, every call before it has its entry in the results
\* (all its attempts and retry waits are over); and at no point are two
\* invocations pending, nor one pending while a retry timer is set.
C34_OneAtATime ==
    LET log == batch.log
    IN  /\ \A p, q \in 1..Len(log) : p < q => log[p].call <= log[q].call
        /\ \A q \in 1..Len(log) :
               /\ \A i \in 1..(log[q].call - 1) : Handled(i)
               /\ PendingAfter(log, q) \in {0, 1}
               /\ log[q].op = "invoke" => PendingAfter(log, q - 1) = 0
               /\ log[q].op = "wait" => PendingAfter(log, q) = 0

\* The first call threw, waited and returned on its second attempt; only
\* then was the second call invoked.
C34_Witness ==
    /\ Len(batch.calls) >= 2
    /\ [p \in 1..Len(batch.log) |-> <<batch.log[p].op, batch.log[p].call>>]
          = << <<"invoke", 1>>, <<"settle", 1>>, <<"wait", 1>>, <<"invoke", 1>>,
               <<"settle", 1>>, <<"invoke", 2>> >>

(***************************************************************************)
(* Properties of EventEmitter (checked under SpecEmitter, and under        *)
(* SpecEmitAsync for emitAsync).                                           *)
(***************************************************************************)
\* Registration id is held in one of the emitter's two stores.
IsStored(id) ==
    \/ \E n \in DOMAIN busEvents : id \in Range(busEvents[n])
    \/ \E k \in 1..Len(wildcardEvents) : id \in Range(wildcardEvents[k].listeners)

\* Event e is one that registration id subscribed to: its name is the exact
\* name e, or the pattern p* with e starting with p.
Subscribes(id, e) ==
    LET n == subscribed[id].eventName
    IN  IF Includes(n, "*")
        THEN n[Len(n)] = "*" /\ StartsWith(e, DropLast(n))
        ELSE n = e

\* A step that is a call of emit.
IsEmit == emits' = emits + 1 /\ asyncEmit' = asyncEmit

\* C15: an emit in which listeners throw invokes every stored listener that
\* matches the event, exact-name or wildcard (the same listeners, in the
\* same order, as an emit in which none throws), and returns normally.
C15_EmitIsolation ==
    [][IsEmit =>
          /\ lastEmit'.returned
          /\ lastEmit'.invoked = EmitOp(EmitterState, lastEmit'.name, {}).invoked
          /\ \A id \in 1..Len(subscribed) :
                (IsStored(id) /\ Subscribes(id, lastEmit'.name)) =>
                    id \in Range(lastEmit'.invoked)
    ]_vars

\* The first listener invoked threw, and a second one was invoked after it.
C15_Witness ==
    /\ Len(lastEmit.invoked) = 2
    /\ lastEmit.invoked[1] \in lastEmit.throwers
    /\ lastEmit.returned
    /\ ~Includes(subscribed[lastEmit.invoked[1]].eventName, "*")
    /\ Includes(subscribed[lastEmit.invoked[2]].eventName, "*")

\* C16: emitAsync calls the listeners emit would call, and its promise is
\* settled only when the promise of every one of them has settled.
C16_EmitAsyncSettles ==
    [][ /\ (emits' = emits + 1 /\ asyncEmit' # asyncEmit) =>
              asyncEmit'.listeners =
                 EmitOp(EmitterState, asyncEmit'.name, {}).invoked
        /\ asyncEmit'.promise \in {"fulfilled", "rejected"} =>
              \A i \in 1..Len(asyncEmit'.promises) :
                 asyncEmit'.promises[i] # "pending"
    ]_vars

\* C17: a listener registered with once, under an exact name or a wildcard
\* pattern, is invoked at most once, whatever is emitted.
C17_OnceAtMostOnce ==
    \A id \in 1..Len(subscribed) :
        subscribed[id].once => invocations[id] <= 1

\* C18: emit(e) invokes a stored listener exactly when it is subscribed
\* under the exact name e, or under a pattern p* with e starting with p (so
\* "*" takes every event); no other listener is invoked.
C18_WildcardMatching ==
    [][IsEmit =>
          \A id \in 1..Len(subscribed) :
             (id \in Range(lastEmit'.invoked)) <=>
                (IsStored(id) /\ Subscribes(id, lastEmit'.name))
    ]_vars

\* memoryCleared went to a "mem*" listener and not to a memoryUpdated one.
C18_Witness ==
    /\ lastEmit.name = memoryCleared
    /\ \E i, j \in 1..Len(subscribed) :
          /\ subscribed[i].eventName = memStar
          /\ i \in Range(lastEmit.invoked)
          /\ subscribed[j].eventName = memoryUpdated
          /\ j \notin Range(lastEmit.invoked)
          /\ IsStored(j)

\* historyUpdated went to a "*" listener and not to a "mem*" one.
C18_WitnessStar ==
    /\ lastEmit.name = historyUpdated
    /\ \E i, j \in 1..Len(subscribed) :
          /\ subscribed[i].eventName = star
          /\ i \in Range(lastEmit.invoked)
          /\ subscribed[j].eventName = memStar
          /\ j \notin Range(lastEmit.invoked)

\* C31: every listener that is stored and matches the event when an emit
\* begins is invoked exactly once by that emit, under an exact name and
\* under a wildcard pattern alike, also when listeners unsubscribe
\* themselves or another listener while the emit runs (checked under
\* SpecEmitUnsubscribing).
C31_EmitSnapshot ==
    [][IsEmit =>
          \A id \in 1..Len(subscribed) :
             (IsStored(id) /\ Subscribes(id, lastEmit'.name)) =>
                 Count(lastEmit'.invoked, id) = 1
    ]_vars

\* The part of C31 that the code keeps: the listeners under the exact name.
C31_ExactSnapshot ==
    [][IsEmit =>
          \A id \in 1..Len(subscribed) :
             (IsStored(id) /\ subscribed[id].eventName = lastEmit'.name) =>
                 Count(lastEmit'.invoked, id) = 1
    ]_vars

\* An exact-name listener unsubscribed the one after it, which was invoked.
C31_WitnessExact ==
    /\ lastEmit.invoked = <<1, 2>>
    /\ lastEmit.unsubscribes = <<2, 0>>
    /\ subscribed[2].eventName = lastEmit.name

(***************************************************************************)
(* Properties of the execution ids (checked under SpecWorkflow).           *)
(***************************************************************************)
\* C23: the execution ids generated by executeWorkflow are pairwise
\* distinct.
C23_FreshExecutionIds ==
    \A i, j \in 1..Len(execIds) : i # j => execIds[i] # execIds[j]

\* Registration id was made under a name that holds a '*'.
IsWildcard(id) == Includes(subscribed[id].eventName, "*")

\* C28: the listeners an emit invokes come in this order: those subscribed
\* under the exact name, in the order they were registered, before every
\* wildcard listener; and the listeners of one wildcard pattern in the
\* order they were registered.
C28_EmitOrder ==
    [][IsEmit =>
          LET invoked == lastEmit'.invoked
          IN  \A p, q \in 1..Len(invoked) :
                 p < q =>
                    /\ IsWildcard(invoked[p]) => IsWildcard(invoked[q])
                    /\ subscribed[invoked[p]].eventName
                          = subscribed[invoked[q]].eventName
                       => invoked[p] < invoked[q]
    ]_vars

\* A "*" listener registered before an exact-name listener was invoked
\* after it.
C28_Witness ==
    /\ Len(lastEmit.invoked) = 2
    /\ lastEmit.invoked[1] > lastEmit.invoked[2]
    /\ ~IsWildcard(lastEmit.invoked[1])
    /\ IsWildcard(lastEmit.invoked[2])

\* Two listeners of the pattern "mem*" were invoked in registration order.
C28_WitnessPattern ==
    /\ lastEmit.invoked = <<1, 2>>
    /\ subscribed[1].eventName = memStar
    /\ subscribed[2].eventName = memStar

(***************************************************************************)
(* Properties of TeamFactory (checked under SpecTeam).                     *)
(***************************************************************************)
\* The agent ids the team lists that have an agent configuration.
Configured(id) == id \in Range(teamConfig.teamAgents) /\ id \in teamConfig.agents

C25_WitnessMalformed ==
    /\ createdTeam.status = "threw"
    /\ createdTeam.teamId = "t1"
    /\ teamConfig.jobs.kind = "malformed"
    /\ teamConfig.teamAgents = <<"a1">>
    /\ teamConfig.agents = {"a1"}

(***************************************************************************)
(* Properties of the tool registry (checked under SpecRegistry).           *)
(***************************************************************************)
\* A step that is a call of addTool.
IsAddTool == regCalls' = regCalls + 1 /\ regLast'.op = "addTool"

\* The tool has no name, no schema, a schema without a function
\* declaration, or a call that is not a function.
Malformed(tool) ==
    \/ tool.name = Undefined
    \/ tool.schema = NoSchema
    \/ tool.schema = NoDeclaration
    \/ ~tool.callable

\* C22: addTool of a malformed tool throws, leaves the registry and the
\* schema list as they were, and emits no event.
C22_AddToolValidates ==
    [][(IsAddTool /\ Malformed(regLast'.tool)) =>
          /\ regLast'.threw
          /\ tools' = tools
          /\ toolOrder' = toolOrder
          /\ toolSchemas' = toolSchemas
          /\ regLast'.emitted = <<>>
    ]_vars

\* addTool threw for a tool named as a registered one, callable, whose
\* schema has no function declaration; the registered one is still there.
C22_Witness ==
    /\ regLast.op = "addTool"
    /\ regLast.threw
    /\ regLast.tool = Tool("search", NoDeclaration, TRUE)
    /\ "search" \in DOMAIN tools
    /\ tools["search"].schema = "d1"
    /\ toolSchemas # <<>>

\* C29: the schema list holds, for each tool of the registry and in the
\* registry's order, the function declaration of that tool, and nothing
\* else; the registry holds the tool last added under each name.
C29_SchemasMatchRegistry ==
    /\ Len(toolSchemas) = Cardinality(DOMAIN tools)
    /\ Len(toolOrder) = Cardinality(DOMAIN tools)
    /\ \A i \in 1..Len(toolSchemas) :
          /\ toolSchemas[i] \in Declarations
          /\ toolSchemas[i] = tools[toolOrder[i]].schema
    /\ (regLast.op = "addTool" /\ ~regLast.threw) =>
          tools[regLast.toolName] = regLast.tool

=============================================================================
